---- MODULE Spec2Model ----
(***************************************************************************)
(* Model of the ung engine core: the generational slot map                 *)
(* (src/src/slotmap.cpp), Pool<T> (src/src/types.hpp) and the transform    *)
(* hierarchy built on it (src/src/transform.cpp), with the matrix helpers  *)
(* of src/src/um.cpp.                                                      *)
(*                                                                         *)
(* A 64-bit key is kept as its three bit fields, because the free flag     *)
(* lives in bits 56..63:                                                   *)
(*     hi  = bits 56..63   (key & FreeMask) >> 56                          *)
(*     gen = bits 24..55                                                   *)
(*     idx = bits  0..23   key & MaxIdx                                    *)
(* so the key 0 is the record with all three fields 0.                     *)
(***************************************************************************)
EXTENDS Integers, Naturals, Sequences, FiniteSets, TLC

VARIABLES
    sm,        \* ung_slotmap { keys, capacity, free_list_head } (Pool::sm)
    data,      \* Pool<Transform>::data, index-aligned with sm.keys
    ndebug,    \* TRUE: built with NDEBUG (assert compiled out)
    status,    \* "running", "assert" (assertion aborted), "segv" (null write)
    op,        \* name of the last call
    arg,       \* key argument of the last call (0 key if none)
    arg2,      \* second key argument of the last call (0 key if none)
    pre,       \* Pool<Transform>::data as it was before the last call
    ret,       \* key returned by the last call (0 key if none)
    retb,      \* boolean returned by the last call (FALSE if none)
    retm,      \* matrix copied out by the last matrix query (zero if none)
    live,      \* keys returned by insert and not yet removed
    stale,     \* keys that a successful remove has retired
    nops       \* numbers of destroy, setter and set_parent calls made so far

vars == <<sm, data, ndebug, status, op, arg, arg2, pre, ret, retb, retm, live, stale, nops>>

----------------------------------------------------------------------------
(* Bounds *)

\* max_num_transforms: capacity of the transform pool
MaxTransforms == 3
\* number of ung_transform_destroy calls explored
MaxDestroys == 1
\* number of set_position / set_orientation / set_scale / look_at calls explored
MaxSets == 2
\* number of ung_transform_set_parent calls explored on the chain
MaxReparents == 1
\* capacity of the slot map explored on its own
Capacity == 2
\* keys of index > 0 are recycled only while their generation is at most this
MaxGenOther == 2

----------------------------------------------------------------------------
(* Key encoding, slotmap.cpp *)

\* number of generation values that survive "gen << 24" evaluated in u32:
\* 2^(32-24)
GenWrap == 256
\* get_generation masks 24 bits: 0xFFFF'FF00'0000 >> 24
GenMask == 16777216
\* the free flag: all of bits 56..63 set
FreeHi == 255

NullKey == [hi |-> 0, gen |-> 0, idx |-> 0]

\* gen << 24 | idx, computed in u32 and then widened: bits 32.. are lost
make_key(idx, gen) == [hi |-> 0, gen |-> gen % GenWrap, idx |-> idx]

\* FreeMask | key
OrFreeMask(key) == [key EXCEPT !.hi = FreeHi]

ung_slotmap_get_index(key) == key.idx

ung_slotmap_get_generation(key) == key.gen % GenMask

ung_slotmap_init(cap) ==
    [keys |-> [i \in 0..(cap - 1) |-> OrFreeMask(make_key(i + 1, 1))],
     capacity |-> cap,
     free_list_head |-> 0]

ung_slotmap_contains(s, key) ==
    LET idx == ung_slotmap_get_index(key)
    IN  /\ key.hi = 0
        /\ idx < s.capacity
        /\ s.keys[idx] = key

ung_slotmap_get_key(s, idx) ==
    IF idx < s.capacity /\ ung_slotmap_get_index(s.keys[idx]) = idx
    THEN s.keys[idx] ELSE NullKey

\* Result of ung_slotmap_insert: asserts = the assertions of lines 46 and 50
\* hold; s, ret, oidx = what the function does when it runs on.
ung_slotmap_insert(s) ==
    LET idx == s.free_list_head
    IN  IF idx >= s.capacity
        THEN [asserts |-> FALSE, s |-> s, ret |-> NullKey, oidx |-> 0]
        ELSE LET gen == ung_slotmap_get_generation(s.keys[idx])
                 key == make_key(idx, gen)
             IN  [asserts |-> s.keys[idx].hi # 0,
                  s |-> [s EXCEPT !.free_list_head =
                                      ung_slotmap_get_index(s.keys[idx]),
                                  !.keys[idx] = key],
                  ret |-> key,
                  oidx |-> idx]

\* ung_slotmap_remove that leaves the slot's word without the free flag
ung_slotmap_remove_NoFreeFlag(s, key) ==
    IF ~ung_slotmap_contains(s, key)
    THEN [asserts |-> FALSE, s |-> s, ret |-> FALSE]
    ELSE [asserts |-> s.free_list_head < s.capacity,
          s |-> [s EXCEPT !.free_list_head = ung_slotmap_get_index(key)],
          ret |-> TRUE]

\* Result of ung_slotmap_remove: asserts = the assertions of lines 85 and 91.
ung_slotmap_remove(s, key) ==
    IF ~ung_slotmap_contains(s, key)
    THEN [asserts |-> FALSE, s |-> s, ret |-> FALSE]
    ELSE LET idx == ung_slotmap_get_index(key)
             gen == ung_slotmap_get_generation(key)
         IN  [asserts |-> s.free_list_head < s.capacity,
              s |-> [s EXCEPT !.keys[idx] =
                                  OrFreeMask(make_key(s.free_list_head, gen + 1)),
                              !.free_list_head = idx],
              ret |-> TRUE]

----------------------------------------------------------------------------
(* Matrices, um.cpp: um_mat is four columns, each a um_vec4 <<x, y, z, w>>. *)
(* Components are integers; float rounding is not modelled.                 *)

ZeroVec3 == <<0, 0, 0>>
ZeroMat == << <<0, 0, 0, 0>>, <<0, 0, 0, 0>>, <<0, 0, 0, 0>>, <<0, 0, 0, 0>> >>

um_quat_identity == <<0, 0, 0, 1>>

um_mat_identity == << <<1, 0, 0, 0>>, <<0, 1, 0, 0>>, <<0, 0, 1, 0>>, <<0, 0, 0, 1>> >>

um_mat_scale(v) ==
    << <<v[1], 0, 0, 0>>, <<0, v[2], 0, 0>>, <<0, 0, v[3], 0>>, um_mat_identity[4] >>

um_mat_translate(vec) ==
    << um_mat_identity[1], um_mat_identity[2], um_mat_identity[3],
       <<vec[1], vec[2], vec[3], 1>> >>

\* q = <<x, y, z, w>>
um_mat_from_quat(q) ==
    LET xx == q[1] * q[1]
        xy == q[1] * q[2]
        xz == q[1] * q[3]
        xw == q[1] * q[4]
        yy == q[2] * q[2]
        yz == q[2] * q[3]
        yw == q[2] * q[4]
        zz == q[3] * q[3]
        zw == q[3] * q[4]
    IN  << <<1 - 2 * (yy + zz), 2 * (xy + zw), 2 * (xz - yw), 0>>,
           <<2 * (xy - zw), 1 - 2 * (xx + zz), 2 * (yz + xw), 0>>,
           <<2 * (xz + yw), 2 * (yz - xw), 1 - 2 * (xx + yy), 0>>,
           <<0, 0, 0, 1>> >>

um_mat_mul_vec4(m, v) ==
    << m[1][1] * v[1] + m[2][1] * v[2] + m[3][1] * v[3] + m[4][1] * v[4],
       m[1][2] * v[1] + m[2][2] * v[2] + m[3][2] * v[3] + m[4][2] * v[4],
       m[1][3] * v[1] + m[2][3] * v[2] + m[3][3] * v[3] + m[4][3] * v[4],
       m[1][4] * v[1] + m[2][4] * v[2] + m[3][4] * v[3] + m[4][4] * v[4] >>

um_mat_mul(a, b) ==
    << um_mat_mul_vec4(a, b[1]), um_mat_mul_vec4(a, b[2]),
       um_mat_mul_vec4(a, b[3]), um_mat_mul_vec4(a, b[4]) >>

----------------------------------------------------------------------------
(* Pool<Transform>, types.hpp and transform.cpp.  uniform_data, a handle of *)
(* the external GPU layer, is left out of the Transform record.             *)

\* std::memset(obj, 0, sizeof(T))
ZeroTransform ==
    [local_matrix |-> ZeroMat,
     orientation |-> <<0, 0, 0, 0>>,
     position |-> ZeroVec3,
     scale |-> ZeroVec3,
     parent |-> NullKey,
     first_child |-> NullKey,
     prev_sibling |-> NullKey,
     next_sibling |-> NullKey,
     local_matrix_dirty |-> FALSE]

\* Pool::init
Pool_init(cap) == [sm |-> ung_slotmap_init(cap),
                   data |-> [i \in 0..(cap - 1) |-> ZeroTransform]]

\* Pool::insert: null = the returned pointer is nullptr
Pool_insert(s, d) ==
    LET r == ung_slotmap_insert(s)
    IN  IF r.ret = NullKey
        THEN [asserts |-> r.asserts, sm |-> r.s, data |-> d,
              id |-> NullKey, null |-> TRUE, idx |-> r.oidx]
        ELSE [asserts |-> r.asserts, sm |-> r.s,
              data |-> [d EXCEPT ![r.oidx] = ZeroTransform],
              id |-> r.ret, null |-> FALSE, idx |-> r.oidx]

\* Pool::find(key) != nullptr
Pool_contains(s, key) == ung_slotmap_contains(s, key)

\* the Transform get_transform(key) points to
Slot(key) == ung_slotmap_get_index(key)

\* the body of ung_transform_create once insert has handed out a slot
InitTransform(tr) ==
    [tr EXCEPT !.orientation = um_quat_identity,
               !.scale = <<1, 1, 1>>,
               !.local_matrix_dirty = TRUE]

\* link that sets next_sibling only
link_NoPrev(d, prev_key, next_key) ==
    IF prev_key = NullKey /\ next_key = NullKey THEN d
    ELSE IF prev_key = NullKey
         THEN [d EXCEPT ![Slot(next_key)].prev_sibling = NullKey]
    ELSE IF next_key = NullKey
         THEN [d EXCEPT ![Slot(prev_key)].next_sibling = NullKey]
    ELSE [d EXCEPT ![Slot(prev_key)].next_sibling = next_key]

link(d, prev_key, next_key) ==
    IF prev_key = NullKey /\ next_key = NullKey THEN d
    ELSE IF prev_key = NullKey
         THEN [d EXCEPT ![Slot(next_key)].prev_sibling = NullKey]
    ELSE IF next_key = NullKey
         THEN [d EXCEPT ![Slot(prev_key)].next_sibling = NullKey]
    ELSE LET d1 == [d EXCEPT ![Slot(prev_key)].next_sibling = next_key]
         IN  [d1 EXCEPT ![Slot(next_key)].prev_sibling = prev_key]

\* the keys met by following next_sibling from key, at most fuel of them
RECURSIVE SiblingChain(_, _, _)
SiblingChain(d, key, fuel) ==
    IF key = NullKey \/ fuel = 0 THEN <<>>
    ELSE <<key>> \o SiblingChain(d, d[Slot(key)].next_sibling, fuel - 1)

Range(seq) == {seq[i] : i \in DOMAIN seq}

Last(seq) == seq[Len(seq)]

unparent(d, child_key) ==
    LET child == d[Slot(child_key)]
        parent_key == child.parent
        d1 == link(d, child.prev_sibling, child.next_sibling)
        first == d1[Slot(parent_key)].first_child = child_key
        d2 == IF first
              THEN [d1 EXCEPT ![Slot(parent_key)].first_child =
                                  d1[Slot(child_key)].next_sibling]
              ELSE d1
    IN  [asserts |-> first => d1[Slot(child_key)].prev_sibling = NullKey,
         data |-> [d2 EXCEPT ![Slot(child_key)].parent = NullKey,
                             ![Slot(child_key)].prev_sibling = NullKey,
                             ![Slot(child_key)].next_sibling = NullKey]]

\* set_parent that returns early when parent already is the parent
set_parent_Shortcut(d, transform, parent) ==
    IF d[Slot(transform)].parent = parent
    THEN [asserts |-> transform # parent, data |-> d]
    ELSE LET d1 == IF d[Slot(transform)].parent # NullKey
                   THEN unparent(d, transform).data ELSE d
             d2 == [d1 EXCEPT ![Slot(transform)].parent = parent]
             d3 == link(d2, transform, d2[Slot(parent)].first_child)
         IN  [asserts |-> transform # parent,
              data |-> IF parent = NullKey THEN d1
                       ELSE [d3 EXCEPT ![Slot(parent)].first_child = transform]]

set_parent(d, transform, parent) ==
    LET u == IF d[Slot(transform)].parent # NullKey
             THEN unparent(d, transform)
             ELSE [asserts |-> TRUE, data |-> d]
        d1 == u.data
    IN  IF parent # NullKey
        THEN LET d2 == [d1 EXCEPT ![Slot(transform)].parent = parent]
                 d3 == link(d2, transform, d2[Slot(parent)].first_child)
             IN  [asserts |-> u.asserts /\ transform # parent,
                  data |-> [d3 EXCEPT ![Slot(parent)].first_child = transform]]
        ELSE [asserts |-> u.asserts /\ transform # parent, data |-> d1]

\* destroy_relink that leaves parent->first_child pointing at the destroyed
\* transform when that was the first child
destroy_relink_StaleFirstChild(d, transform) ==
    LET trafo == d[Slot(transform)]
        chain == SiblingChain(d, trafo.first_child, Cardinality(DOMAIN d))
    IN  IF trafo.first_child # NullKey /\ trafo.parent # NullKey
        THEN LET d1 == [i \in DOMAIN d |->
                          IF \E k \in Range(chain) : Slot(k) = i
                          THEN [d[i] EXCEPT !.parent = trafo.parent]
                          ELSE d[i]]
                 d2 == IF d1[Slot(trafo.parent)].first_child = transform
                       THEN d1
                       ELSE link(d1, trafo.prev_sibling, trafo.first_child)
             IN  [asserts |-> TRUE,
                  data |-> link(d2, Last(chain), trafo.next_sibling)]
        ELSE IF trafo.first_child # NullKey
        THEN [asserts |-> TRUE,
              data |-> [i \in DOMAIN d |->
                          IF \E k \in Range(chain) : Slot(k) = i
                          THEN [d[i] EXCEPT !.parent = NullKey,
                                            !.prev_sibling = NullKey,
                                            !.next_sibling = NullKey]
                          ELSE d[i]]]
        ELSE IF trafo.parent # NullKey
        THEN LET d1 == link(d, trafo.prev_sibling, trafo.next_sibling)
             IN  [asserts |-> TRUE,
                  data |-> IF d1[Slot(trafo.parent)].first_child = transform
                           THEN [d1 EXCEPT ![Slot(trafo.parent)].first_child =
                                               trafo.next_sibling]
                           ELSE d1]
        ELSE [asserts |-> TRUE, data |-> d]

\* destroy_relink that does not link the last child to the sibling that
\* followed the destroyed transform
destroy_relink_NoTail(d, transform) ==
    LET trafo == d[Slot(transform)]
        chain == SiblingChain(d, trafo.first_child, Cardinality(DOMAIN d))
    IN  IF trafo.first_child # NullKey
        THEN IF trafo.parent # NullKey
             THEN LET d1 == [i \in DOMAIN d |->
                               IF \E k \in Range(chain) : Slot(k) = i
                               THEN [d[i] EXCEPT !.parent = trafo.parent]
                               ELSE d[i]]
                      first == d1[Slot(trafo.parent)].first_child = transform
                  IN  [asserts |-> TRUE,
                       data |-> IF first
                                THEN [d1 EXCEPT ![Slot(trafo.parent)].first_child =
                                                    d1[Slot(transform)].first_child]
                                ELSE link(d1, d1[Slot(transform)].prev_sibling,
                                          d1[Slot(transform)].first_child)]
             ELSE [asserts |-> TRUE,
                   data |-> [i \in DOMAIN d |->
                               IF \E k \in Range(chain) : Slot(k) = i
                               THEN [d[i] EXCEPT !.parent = NullKey,
                                                 !.prev_sibling = NullKey,
                                                 !.next_sibling = NullKey]
                               ELSE d[i]]]
        ELSE IF trafo.parent # NullKey
             THEN LET d1 == link(d, trafo.prev_sibling, trafo.next_sibling)
                  IN  [asserts |-> TRUE,
                       data |-> IF d1[Slot(trafo.parent)].first_child = transform
                                THEN [d1 EXCEPT ![Slot(trafo.parent)].first_child =
                                                    d1[Slot(transform)].next_sibling]
                                ELSE d1]
             ELSE [asserts |-> TRUE, data |-> d]

\* lines 86-130 of ung_transform_destroy: the relinking before Pool::remove
destroy_relink(d, transform) ==
    LET trafo == d[Slot(transform)]
        chain == SiblingChain(d, trafo.first_child, Cardinality(DOMAIN d))
    IN  IF trafo.first_child # NullKey
        THEN IF trafo.parent # NullKey
             THEN LET d1 == [i \in DOMAIN d |->
                               IF \E k \in Range(chain) : Slot(k) = i
                               THEN [d[i] EXCEPT !.parent = trafo.parent]
                               ELSE d[i]]
                      last_sibling == Last(chain)
                      first == d1[Slot(trafo.parent)].first_child = transform
                      d2 == IF first
                            THEN [d1 EXCEPT ![Slot(trafo.parent)].first_child =
                                                d1[Slot(transform)].first_child]
                            ELSE link(d1, d1[Slot(transform)].prev_sibling,
                                      d1[Slot(transform)].first_child)
                  IN  [asserts |->
                           IF first
                           THEN d1[Slot(trafo.first_child)].prev_sibling = NullKey
                           ELSE trafo.prev_sibling # NullKey,
                       data |-> link(d2, last_sibling,
                                     d2[Slot(transform)].next_sibling)]
             ELSE [asserts |-> TRUE,
                   data |-> [i \in DOMAIN d |->
                               IF \E k \in Range(chain) : Slot(k) = i
                               THEN [d[i] EXCEPT !.parent = NullKey,
                                                 !.prev_sibling = NullKey,
                                                 !.next_sibling = NullKey]
                               ELSE d[i]]]
        ELSE IF trafo.parent # NullKey
             THEN LET d1 == link(d, trafo.prev_sibling, trafo.next_sibling)
                  IN  [asserts |-> TRUE,
                       data |-> IF d1[Slot(trafo.parent)].first_child = transform
                                THEN [d1 EXCEPT ![Slot(trafo.parent)].first_child =
                                                    d1[Slot(transform)].next_sibling]
                                ELSE d1]
             ELSE [asserts |-> TRUE, data |-> d]

\* the local TRS values the setters are called with
Positions == {<<1, 2, 3>>}
Orientations == {<<1, 0, 0, 1>>}
Scales == {<<2, 3, 4>>}

ung_transform_set_position_v(tr, v) ==
    [tr EXCEPT !.position = v, !.local_matrix_dirty = TRUE]

ung_transform_set_orientation_v(tr, q) ==
    [tr EXCEPT !.orientation = q, !.local_matrix_dirty = TRUE]

ung_transform_set_scale_v(tr, v) ==
    [tr EXCEPT !.scale = v, !.local_matrix_dirty = TRUE]

\* look_at: q stands for the quaternion um_quat_normalized(um_quat_conjugate(
\* um_quat_from_matrix(um_mat_look_at(position, at, up)))) comes to
look_at(tr, q) ==
    [tr EXCEPT !.orientation = q, !.local_matrix_dirty = TRUE]

\* get_local_matrix that multiplies scale * rotate * translate
get_local_matrix_SRT(tr) ==
    IF tr.local_matrix_dirty
    THEN [tr EXCEPT !.local_matrix =
                        um_mat_mul(um_mat_mul(um_mat_scale(tr.scale),
                                              um_mat_from_quat(tr.orientation)),
                                   um_mat_translate(tr.position)),
                    !.local_matrix_dirty = FALSE]
    ELSE tr

\* get_local_matrix: the Transform afterwards; its local_matrix is returned
get_local_matrix(tr) ==
    IF tr.local_matrix_dirty
    THEN LET t == um_mat_translate(tr.position)
             r == um_mat_from_quat(tr.orientation)
             s == um_mat_scale(tr.scale)
         IN  [tr EXCEPT !.local_matrix = um_mat_mul(um_mat_mul(t, r), s),
                        !.local_matrix_dirty = FALSE]
    ELSE tr

\* get_world_matrix that multiplies local * parent_world
RECURSIVE get_world_matrix_Swapped(_, _)
get_world_matrix_Swapped(d, key) ==
    LET d1 == [d EXCEPT ![Slot(key)] = get_local_matrix(@)]
        local_matrix == d1[Slot(key)].local_matrix
    IN  IF d1[Slot(key)].parent # NullKey
        THEN LET r == get_world_matrix_Swapped(d1, d1[Slot(key)].parent)
             IN  [data |-> r.data, m |-> um_mat_mul(local_matrix, r.m)]
        ELSE [data |-> d1, m |-> local_matrix]

\* get_world_matrix: data = the pool afterwards, m = the matrix returned
RECURSIVE get_world_matrix(_, _)
get_world_matrix(d, key) ==
    LET d1 == [d EXCEPT ![Slot(key)] = get_local_matrix(@)]
        local_matrix == d1[Slot(key)].local_matrix
    IN  IF d1[Slot(key)].parent # NullKey
        THEN LET r == get_world_matrix(d1, d1[Slot(key)].parent)
             IN  [data |-> r.data, m |-> um_mat_mul(r.m, local_matrix)]
        ELSE [data |-> d1, m |-> local_matrix]

\* a failed assert aborts unless the build defines NDEBUG
Aborts(asserts) == ~asserts /\ ~ndebug

\* a slot is alive when its word does not carry the free flag
AliveCount(s) == Cardinality({i \in 0..(s.capacity - 1) : s.keys[i].hi = 0})

----------------------------------------------------------------------------
(* The slot map on its own: insert / remove in any order *)

InitSlotmap ==
    /\ sm = ung_slotmap_init(Capacity)
    /\ data = <<>>
    /\ ndebug \in BOOLEAN
    /\ status = "running"
    /\ op = "init"
    /\ arg = NullKey
    /\ arg2 = NullKey
    /\ pre = <<>>
    /\ ret = NullKey
    /\ retb = FALSE
    /\ retm = ZeroMat
    /\ live = {}
    /\ stale = {}
    /\ nops = [destroy |-> 0, set |-> 0, set_parent |-> 0]

SlotmapInsert ==
    /\ status = "running"
    /\ LET r == ung_slotmap_insert(sm)
       IN  /\ op' = "insert"
           /\ arg' = NullKey
           /\ IF Aborts(r.asserts)
              THEN /\ status' = "assert"
                   /\ UNCHANGED <<sm, ret, live>>
              ELSE /\ sm' = r.s
                   /\ ret' = r.ret
                   /\ live' = IF r.s # sm THEN live \cup {r.ret} ELSE live
                   /\ UNCHANGED status
    /\ UNCHANGED <<data, ndebug, arg2, pre, retb, retm, stale, nops>>

\* the keys a caller passes: live ones, the null key, and retired ones (of the
\* first generations only: a retired key of any generation is treated alike)
RemoveArgs == live \cup {NullKey} \cup {k \in stale : k.gen <= MaxGenOther}

SlotmapRemove ==
    /\ status = "running"
    /\ \E key \in RemoveArgs :
         /\ key.idx = 0 \/ key.gen <= MaxGenOther
         /\ LET r == ung_slotmap_remove(sm, key)
            IN  /\ op' = "remove"
                /\ arg' = key
                /\ IF Aborts(r.asserts)
                   THEN /\ status' = "assert"
                        /\ UNCHANGED <<sm, retb, live, stale>>
                   ELSE /\ sm' = r.s
                        /\ retb' = r.ret
                        /\ live' = IF r.ret THEN live \ {key} ELSE live
                        /\ stale' = IF r.ret THEN stale \cup {key} ELSE stale
                        /\ UNCHANGED status
    /\ UNCHANGED <<data, ndebug, arg2, pre, ret, retm, nops>>

NextSlotmap == SlotmapInsert \/ SlotmapRemove

SpecSlotmap == InitSlotmap /\ [][NextSlotmap]_vars

----------------------------------------------------------------------------
(* The transform hierarchy: create / destroy / set_parent in any order *)

\* the handles of the transforms now alive
AliveKeys(s) == {s.keys[i] : i \in {j \in 0..(s.capacity - 1) : s.keys[j].hi = 0}}

\* a is t or one of t's ancestors, following at most fuel parent links
RECURSIVE IsSelfOrAncestor(_, _, _, _)
IsSelfOrAncestor(d, a, t, fuel) ==
    IF t = NullKey \/ fuel = 0 THEN FALSE
    ELSE IF t = a THEN TRUE
    ELSE IsSelfOrAncestor(d, a, d[Slot(t)].parent, fuel - 1)

InitTransforms ==
    /\ sm = Pool_init(MaxTransforms).sm
    /\ data = Pool_init(MaxTransforms).data
    /\ ndebug \in BOOLEAN
    /\ status = "running"
    /\ op = "init"
    /\ arg = NullKey
    /\ arg2 = NullKey
    /\ pre = data
    /\ ret = NullKey
    /\ retb = FALSE
    /\ retm = ZeroMat
    /\ live = {}
    /\ stale = {}
    /\ nops = [destroy |-> 0, set |-> 0, set_parent |-> 0]

\* ung_transform_create
TransformCreate ==
    /\ status = "running"
    /\ LET r == Pool_insert(sm, data)
       IN  /\ op' = "create"
           /\ arg' = NullKey
           /\ arg2' = NullKey
           /\ pre' = data
           /\ IF Aborts(r.asserts)
              THEN /\ status' = "assert"
                   /\ UNCHANGED <<sm, data, ret>>
              ELSE IF r.null
              THEN \* trafo is nullptr and line 60 writes through it
                   /\ status' = "segv"
                   /\ sm' = r.sm
                   /\ UNCHANGED <<data, ret>>
              ELSE /\ sm' = r.sm
                   /\ data' = [r.data EXCEPT ![r.idx] = InitTransform(@)]
                   /\ ret' = r.id
                   /\ UNCHANGED status
    /\ retm' = ZeroMat
    /\ UNCHANGED <<ndebug, retb, live, stale, nops>>

\* ung_transform_destroy, called with a valid handle
TransformDestroy ==
    /\ status = "running"
    /\ nops.destroy < MaxDestroys
    /\ \E t \in AliveKeys(sm) :
         LET r == destroy_relink(data, t)
             rm == ung_slotmap_remove(sm, t)
         IN  /\ op' = "destroy"
             /\ arg' = t
             /\ arg2' = NullKey
             /\ pre' = data
             /\ nops' = [nops EXCEPT !.destroy = @ + 1]
             /\ IF Aborts(r.asserts)
                THEN /\ status' = "assert"
                     /\ UNCHANGED <<sm, data>>
                ELSE IF Aborts(rm.asserts)
                THEN /\ status' = "assert"
                     /\ data' = r.data
                     /\ UNCHANGED sm
                ELSE /\ sm' = rm.s
                     /\ data' = r.data
                     /\ UNCHANGED status
    /\ retm' = ZeroMat
    /\ UNCHANGED <<ndebug, ret, retb, live, stale>>

\* ung_transform_set_parent(t, p), called with valid handles that close no
\* cycle
SetParentCall(t, p) ==
    /\ ~IsSelfOrAncestor(data, t, p, MaxTransforms + 1)
    /\ LET r == set_parent(data, t, p)
       IN  /\ op' = "set_parent"
           /\ arg' = t
           /\ arg2' = p
           /\ pre' = data
           /\ IF Aborts(r.asserts)
              THEN /\ status' = "assert"
                   /\ UNCHANGED data
              ELSE /\ data' = r.data
                   /\ UNCHANGED status
    /\ retm' = ZeroMat
    /\ UNCHANGED <<sm, ndebug, ret, retb, live, stale>>

TransformSetParent ==
    /\ status = "running"
    /\ \E t \in AliveKeys(sm), p \in AliveKeys(sm) \cup {NullKey} :
         SetParentCall(t, p)
    /\ UNCHANGED nops

NextHier == TransformCreate \/ TransformDestroy \/ TransformSetParent

SpecHier == InitTransforms /\ [][NextHier]_vars

----------------------------------------------------------------------------
(* Local and world matrices: setters and queries on a growing hierarchy *)

\* a setter or look_at call on a valid handle: f is the Transform it leaves
SetterCall(name, t, tr) ==
    /\ op' = name
    /\ arg' = t
    /\ arg2' = NullKey
    /\ pre' = <<>>
    /\ retm' = ZeroMat
    /\ data' = [data EXCEPT ![Slot(t)] = tr]
    /\ nops' = [nops EXCEPT !.set = @ + 1]
    /\ UNCHANGED <<sm, ndebug, status, ret, retb, live, stale>>

\* ung_transform_set_position / ung_transform_set_position_v
TransformSetPosition ==
    /\ status = "running" /\ nops.set < MaxSets
    /\ \E t \in AliveKeys(sm), v \in Positions :
         SetterCall("set_position", t,
                    ung_transform_set_position_v(data[Slot(t)], v))

\* ung_transform_set_orientation / ung_transform_set_orientation_v
TransformSetOrientation ==
    /\ status = "running" /\ nops.set < MaxSets
    /\ \E t \in AliveKeys(sm), q \in Orientations :
         SetterCall("set_orientation", t,
                    ung_transform_set_orientation_v(data[Slot(t)], q))

\* ung_transform_set_scale / _u / _v
TransformSetScale ==
    /\ status = "running" /\ nops.set < MaxSets
    /\ \E t \in AliveKeys(sm), v \in Scales :
         SetterCall("set_scale", t,
                    ung_transform_set_scale_v(data[Slot(t)], v))

\* ung_transform_look_at / _v / _up / _up_v
TransformLookAt ==
    /\ status = "running" /\ nops.set < MaxSets
    /\ \E t \in AliveKeys(sm), q \in Orientations :
         SetterCall("look_at", t, look_at(data[Slot(t)], q))

\* ung_transform_get_local_matrix
TransformGetLocalMatrix ==
    /\ status = "running"
    /\ \E t \in AliveKeys(sm) :
         LET tr == get_local_matrix(data[Slot(t)])
         IN  /\ op' = "get_local_matrix"
             /\ arg' = t
             /\ data' = [data EXCEPT ![Slot(t)] = tr]
             /\ retm' = tr.local_matrix
    /\ arg2' = NullKey
    /\ pre' = <<>>
    /\ UNCHANGED <<sm, ndebug, status, ret, retb, live, stale, nops>>

\* ung_transform_get_world_matrix
TransformGetWorldMatrix ==
    /\ status = "running"
    /\ \E t \in AliveKeys(sm) :
         LET r == get_world_matrix(data, t)
         IN  /\ op' = "get_world_matrix"
             /\ arg' = t
             /\ data' = r.data
             /\ retm' = r.m
    /\ arg2' = NullKey
    /\ pre' = <<>>
    /\ UNCHANGED <<sm, ndebug, status, ret, retb, live, stale, nops>>

\* ung_transform_set_parent, a bounded number of times
TransformSetParentBounded ==
    /\ status = "running"
    /\ nops.set_parent < MaxReparents
    /\ \E t \in AliveKeys(sm), p \in AliveKeys(sm) \cup {NullKey} :
         SetParentCall(t, p)
    /\ nops' = [nops EXCEPT !.set_parent = @ + 1]

NextMat ==
    \/ TransformSetParentBounded
    \/ TransformSetPosition
    \/ TransformSetOrientation
    \/ TransformSetScale
    \/ TransformLookAt
    \/ TransformGetLocalMatrix
    \/ TransformGetWorldMatrix

\* ung_transform_create on pool pl, when a slot is free
Created(pl) ==
    LET r == Pool_insert(pl.sm, pl.data)
    IN  [sm |-> r.sm,
         data |-> [r.data EXCEPT ![r.idx] = InitTransform(@)],
         id |-> r.id]

\* the pool after three ung_transform_create calls
PoolRoot == Created(Pool_init(MaxTransforms))
PoolMid == Created(PoolRoot)
PoolLeaf == Created(PoolMid)

\* ... and after set_parent(mid, root)
ChainMid == set_parent(PoolLeaf.data, PoolMid.id, PoolRoot.id).data

\* the chain root -> mid -> leaf has just been built; the build has its
\* assertions on (none of them is reachable by the calls of NextMat)
InitMat ==
    /\ sm = PoolLeaf.sm
    /\ data = set_parent(ChainMid, PoolLeaf.id, PoolMid.id).data
    /\ ndebug = FALSE
    /\ status = "running"
    /\ op = "set_parent"
    /\ arg = PoolLeaf.id
    /\ arg2 = PoolMid.id
    /\ pre = ChainMid
    /\ ret = NullKey
    /\ retb = FALSE
    /\ retm = ZeroMat
    /\ live = {}
    /\ stale = {}
    /\ nops = [destroy |-> 0, set |-> 0, set_parent |-> 0]

SpecMat == InitMat /\ [][NextMat]_vars

----------------------------------------------------------------------------
(* Claims about the slot map *)

\* C1: a non-null handle returned by insert is contained from that insert up
\* to its matching remove, and is not contained right after a remove of it
\* has returned.
C1_RoundTrip ==
    /\ \A h \in live : h # NullKey => ung_slotmap_contains(sm, h)
    /\ (op = "insert" /\ status = "running" /\ ret # NullKey)
           => ung_slotmap_contains(sm, ret)
    /\ (op = "remove" /\ status = "running")
           => ~ung_slotmap_contains(sm, arg)

\* a remove of an inserted handle has returned while another handle is live
C1_Witness ==
    /\ op = "remove" /\ status = "running" /\ retb
    /\ arg \in stale
    /\ \E h \in live : h # NullKey /\ h.gen > 1

\* C2: a handle retired by a successful remove is never contained again,
\* however often its index is reused.
C2_StaleNeverContained == \A h \in stale : ~ung_slotmap_contains(sm, h)

\* C3: insert on a full slot map returns the null handle and leaves the slot
\* map as it was; the number of alive slots never exceeds the capacity.
C3_ExhaustionReturnsNull ==
    [][(status = "running" /\ sm.free_list_head = sm.capacity /\ op' = "insert")
         => /\ status' = "running"
            /\ ret' = NullKey
            /\ sm' = sm
            /\ AliveCount(sm') <= sm'.capacity]_vars

\* C4: the handle 0 is never contained, and insert never returns it for a
\* slot it has made alive.
C4_NullHandleInvalid ==
    /\ ~ung_slotmap_contains(sm, NullKey)
    /\ NullKey \notin live

\* C5: remove of a contained handle, also on a full slot map, trips no
\* assertion, returns true and makes the slot the free-list head, linked to
\* the previous head.
C5_RemoveContained ==
    [][(status = "running" /\ op' = "remove" /\ ung_slotmap_contains(sm, arg'))
         => /\ status' = "running"
            /\ retb'
            /\ sm'.free_list_head = ung_slotmap_get_index(arg')
            /\ sm'.keys[ung_slotmap_get_index(arg')].hi # 0
            /\ ung_slotmap_get_index(sm'.keys[ung_slotmap_get_index(arg')])
                   = sm.free_list_head]_vars

----------------------------------------------------------------------------
(* Claims about the transform hierarchy *)

\* the child list of p: first_child, then next_sibling links
Children(d, p) == SiblingChain(d, d[Slot(p)].first_child, MaxTransforms + 2)

NoDuplicates(seq) == \A i, j \in DOMAIN seq : i # j => seq[i] # seq[j]

Without(seq, k) == SelectSeq(seq, LAMBDA x : x # k)

FirstOrNull(seq) == IF seq = <<>> THEN NullKey ELSE seq[1]

\* C6: ung_transform_create on a pool at capacity returns id 0 without
\* crashing or tripping an assertion and leaves the pool's objects unchanged.
C6_CreateAtCapacity ==
    [][(status = "running" /\ AliveCount(sm) = sm.capacity /\ op' = "create")
         => /\ status' = "running"
            /\ ret' = NullKey
            /\ data' = data]_vars

C8_Common(t, p) ==
    LET F == pre[Slot(t)].parent
    IN  /\ data[Slot(t)].parent = p
        /\ (F # NullKey /\ F # p) =>
               /\ t \notin Range(Children(data, F))
               /\ Children(data, F) = Without(Children(pre, F), t)
        /\ IF p # NullKey
           THEN /\ data[Slot(p)].first_child = t
                /\ Without(Children(data, p), t) = Without(Children(pre, p), t)
           ELSE /\ data[Slot(t)].prev_sibling = NullKey
                /\ data[Slot(t)].next_sibling = NullKey
                /\ F # NullKey =>
                       Children(data, F) = Without(Children(pre, F), t)

----------------------------------------------------------------------------
(* Claims about the local and world matrices *)

\* translate(position) * rotate(orientation) * scale(scale) of a Transform
TRS(tr) ==
    um_mat_mul(um_mat_mul(um_mat_translate(tr.position),
                          um_mat_from_quat(tr.orientation)),
               um_mat_scale(tr.scale))

\* world(parent) * local down the parent chain, from the current fields
RECURSIVE World(_, _)
World(d, key) ==
    IF d[Slot(key)].parent = NullKey
    THEN TRS(d[Slot(key)])
    ELSE um_mat_mul(World(d, d[Slot(key)].parent), TRS(d[Slot(key)]))

\* C9: ung_transform_get_world_matrix(t) returns world(parent(t)) * local(t),
\* local(t) for a root, from the TRS values and parent links current at the
\* call; for a chain root -> mid -> leaf that is
\* local(root) * local(mid) * local(leaf).
C9_WorldMatrix ==
    (op = "get_world_matrix" /\ status = "running") =>
        /\ retm = World(data, arg)
        /\ LET mid == data[Slot(arg)].parent
               root == IF mid = NullKey THEN NullKey ELSE data[Slot(mid)].parent
           IN  (root # NullKey /\ data[Slot(root)].parent = NullKey) =>
                   retm = um_mat_mul(um_mat_mul(TRS(data[Slot(root)]),
                                                TRS(data[Slot(mid)])),
                                     TRS(data[Slot(arg)]))

\* the world matrix of the leaf of a three-deep chain was queried after the
\* locals of two of its nodes were changed, and it is not the leaf's local
C9_Witness ==
    /\ op = "get_world_matrix" /\ status = "running"
    /\ data[Slot(arg)].parent # NullKey
    /\ data[Slot(data[Slot(arg)].parent)].parent # NullKey
    /\ nops.set >= 2
    /\ retm # TRS(data[Slot(arg)])
    /\ retm # um_mat_mul(TRS(data[Slot(arg)]), TRS(data[Slot(data[Slot(arg)].parent)]))

Setters == {"set_position", "set_orientation", "set_scale", "look_at"}

Queries == {"get_local_matrix", "get_world_matrix"}

\* C10: get_local_matrix returns T * R * S of the current fields; a clear
\* dirty flag implies the cache equals that product; a setter sets the flag
\* and leaves the cache alone; a query recomputes a cache only if its flag
\* was set.
C10_Inv ==
    /\ (op = "get_local_matrix" /\ status = "running")
           => retm = TRS(data[Slot(arg)])
    /\ \A k \in AliveKeys(sm) :
           ~data[Slot(k)].local_matrix_dirty
               => data[Slot(k)].local_matrix = TRS(data[Slot(k)])

C10_Step ==
    /\ op' \in Setters =>
           /\ data'[Slot(arg')].local_matrix_dirty
           /\ \A k \in AliveKeys(sm) :
                  data'[Slot(k)].local_matrix = data[Slot(k)].local_matrix
    /\ op' \in Queries =>
           /\ ~data'[Slot(arg')].local_matrix_dirty
           /\ \A k \in AliveKeys(sm) :
                  ~data[Slot(k)].local_matrix_dirty =>
                      data'[Slot(k)].local_matrix = data[Slot(k)].local_matrix

C10_LocalMatrix == [](C10_Inv) /\ [][C10_Step]_vars

\* the local matrix was queried again after position, then scale were set
C10_Witness ==
    /\ op = "get_local_matrix" /\ status = "running"
    /\ nops.set >= 2
    /\ data[Slot(arg)].position # ZeroVec3
    /\ data[Slot(arg)].scale # <<1, 1, 1>>
    /\ retm = TRS(data[Slot(arg)])

----------------------------------------------------------------------------
(* Skeletons (src/src/animation.cpp)                                       *)
(*                                                                         *)
(* In SpecSkel the variables hold: sm = Pool<Skeleton>::sm, data = the     *)
(* record [skel, heap] of Pool<Skeleton>::data and the set of blocks the   *)
(* allocator has handed out and not taken back, pre = data before the last *)
(* call, arg = the handle passed, ret = the handle returned, retm = the    *)
(* joint index written by the last pose write, live / stale = handles      *)
(* created and not destroyed / destroyed.  An array of a skeleton is kept  *)
(* in the Skeleton record itself; 1-based, so joint i is element i + 1.    *)

\* most joints of a skeleton
MaxJoints == 3
\* Pool<Skeleton> capacity (ung_init_params.max_num_skeletons)
MaxSkeletons == 2
\* most ung_skeleton_create calls in a run
MaxSkelCreates == 2
\* most writes through ung_skeleton_get_joint_transforms in a run
MaxPoseWrites == 2

\* the five arrays ung_skeleton_create allocates
SkeletonArrays ==
    {"joints", "joint_transforms", "local_bind", "global_transforms", "joint_matrices"}

\* Pool::insert's memset of the slot
ZeroSkeleton ==
    [num_joints |-> 0, joints |-> <<>>, joint_transforms |-> <<>>,
     local_bind |-> <<>>, global_transforms |-> <<>>, joint_matrices |-> <<>>]

\* allocate<T>(count) / deallocate(ptr, count): a block is named by its owner
Block(key, array) == [key |-> key, array |-> array]

\* get_matrix: T * R * S of a joint transform
get_matrix(trafo) ==
    um_mat_mul(um_mat_mul(um_mat_translate(trafo.translation),
                          um_mat_from_quat(trafo.rotation)),
               um_mat_scale(trafo.scale))

\* joint parameters of ung_skeleton_create: parent_index of joint i is
\* parents[i + 1]; the inverse bind matrix moves joint i back by i along x
InverseBind(i) == um_mat_translate(<<0 - i, 0, 0>>)

\* params.local_bind, always supplied here (the derivation from the inverse
\* bind matrices, lines 121-138, is not entered)
LocalBind(i) == [translation |-> <<1, 0, 0>>, rotation |-> <<0, 0, 0, 1>>,
                 scale |-> <<1, 1, 1>>]

\* every parent_index array of 1..MaxJoints joints with in-range entries,
\* topologically ordered or not
JointParams ==
    UNION {[1..n -> -1..(n - 1)] : n \in 1..MaxJoints}

\* skeleton_fill whose assertion lets a joint be its own parent
skeleton_fill_NonStrict(parents) ==
    LET n == Len(parents)
    IN  [asserts |-> \A i \in 0..(n - 1) : parents[i + 1] <= i,
         skel |-> [num_joints |-> n,
                   joints |-> [i \in 1..n |->
                                 [inverse_bind_matrix |-> InverseBind(i - 1),
                                  parent_index |-> parents[i]]],
                   joint_transforms |-> [i \in 1..n |-> LocalBind(i - 1)],
                   local_bind |-> [i \in 1..n |-> LocalBind(i - 1)],
                   global_transforms |-> [i \in 1..n |-> um_mat_identity],
                   joint_matrices |-> [i \in 1..n |-> um_mat_identity]]]

\* the loop of ung_skeleton_create (lines 100-144): asserts is the
\* conjunction of assert(parent_idx < i) over the joints
skeleton_fill(parents) ==
    LET n == Len(parents)
    IN  [asserts |-> \A i \in 0..(n - 1) : parents[i + 1] < i,
         skel |-> [num_joints |-> n,
                   joints |-> [i \in 1..n |->
                                 [inverse_bind_matrix |-> InverseBind(i - 1),
                                  parent_index |-> parents[i]]],
                   joint_transforms |-> [i \in 1..n |-> LocalBind(i - 1)],
                   local_bind |-> [i \in 1..n |-> LocalBind(i - 1)],
                   global_transforms |-> [i \in 1..n |-> um_mat_identity],
                   joint_matrices |-> [i \in 1..n |-> um_mat_identity]]]

\* update_joint whose skin matrix is inverse_bind * global
update_joint_SkinSwapped(s, i) ==
    LET local_trafo == get_matrix(s.joint_transforms[i + 1])
        parent == s.joints[i + 1].parent_index
        global == IF parent >= 0
                  THEN um_mat_mul(s.global_transforms[parent + 1], local_trafo)
                  ELSE local_trafo
    IN  [s EXCEPT !.global_transforms[i + 1] = global,
                  !.joint_matrices[i + 1] =
                      um_mat_mul(s.joints[i + 1].inverse_bind_matrix, global)]

\* update_joint that takes the joint before i as i's parent
update_joint_ChainParent(s, i) ==
    LET local_trafo == get_matrix(s.joint_transforms[i + 1])
        parent == IF s.joints[i + 1].parent_index >= 0 THEN i - 1 ELSE -1
        global == IF parent >= 0
                  THEN um_mat_mul(s.global_transforms[parent + 1], local_trafo)
                  ELSE local_trafo
    IN  [s EXCEPT !.global_transforms[i + 1] = global,
                  !.joint_matrices[i + 1] =
                      um_mat_mul(global, s.joints[i + 1].inverse_bind_matrix)]

\* one iteration of the loop of ung_skeleton_update_joint_matrices
update_joint(s, i) ==
    LET local_trafo == get_matrix(s.joint_transforms[i + 1])
        parent == s.joints[i + 1].parent_index
        global == IF parent >= 0
                  THEN um_mat_mul(s.global_transforms[parent + 1], local_trafo)
                  ELSE local_trafo
    IN  [s EXCEPT !.global_transforms[i + 1] = global,
                  !.joint_matrices[i + 1] =
                      um_mat_mul(global, s.joints[i + 1].inverse_bind_matrix)]

\* for (u16 i = from; i < s->num_joints; ++i)
RECURSIVE update_joints_from(_, _)
update_joints_from(s, from) ==
    IF from >= s.num_joints THEN s
    ELSE update_joints_from(update_joint(s, from), from + 1)

ung_skeleton_update_joint_matrices(s) == update_joints_from(s, 0)

\* ung_skeleton_reset_to_bind_pose that copies one joint too few
ung_skeleton_reset_to_bind_pose_Short(s) ==
    [s EXCEPT !.joint_transforms =
        [i \in 1..s.num_joints |->
           IF i < s.num_joints THEN s.local_bind[i] ELSE s.joint_transforms[i]]]

\* ung_skeleton_reset_to_bind_pose: memcpy(joint_transforms, local_bind)
ung_skeleton_reset_to_bind_pose(s) == [s EXCEPT !.joint_transforms = s.local_bind]

\* ung_skeleton_destroy that also gives back local_bind
skeleton_frees_All(key) == {Block(key, a) : a \in SkeletonArrays}

\* the blocks ung_skeleton_destroy passes to deallocate (lines 153-156)
skeleton_frees(key) ==
    {Block(key, "joints"), Block(key, "joint_transforms"),
     Block(key, "global_transforms"), Block(key, "joint_matrices")}

\* the blocks ung_skeleton_create obtains from allocate (lines 102-106)
skeleton_allocs(key) == {Block(key, a) : a \in SkeletonArrays}

InitSkel ==
    /\ sm = ung_slotmap_init(MaxSkeletons)
    /\ data = [skel |-> [i \in 0..(MaxSkeletons - 1) |-> ZeroSkeleton], heap |-> {}]
    /\ ndebug \in BOOLEAN
    /\ status = "running"
    /\ op = "init"
    /\ arg = NullKey
    /\ arg2 = NullKey
    /\ pre = data
    /\ ret = NullKey
    /\ retb = FALSE
    /\ retm = 0
    /\ live = {}
    /\ stale = {}
    /\ nops = [create |-> 0, set |-> 0, update |-> 0]

\* ung_skeleton_create(params): arg2 keeps params.joints' parent indices
SkeletonCreate ==
    /\ status = "running"
    /\ nops.create < MaxSkelCreates
    /\ \E parents \in JointParams :
         LET r == ung_slotmap_insert(sm)
             f == skeleton_fill(parents)
         IN  /\ op' = "skeleton_create"
             /\ arg2' = parents
             /\ pre' = data
             /\ nops' = [nops EXCEPT !.create = @ + 1]
             /\ IF Aborts(r.asserts) \/ (r.ret # NullKey /\ Aborts(f.asserts))
                THEN /\ status' = "assert"
                     /\ UNCHANGED <<sm, data, ret, live>>
                ELSE IF r.ret = NullKey
                THEN /\ ret' = NullKey
                     /\ sm' = r.s
                     /\ UNCHANGED <<data, status, live>>
                ELSE /\ sm' = r.s
                     /\ data' = [skel |-> [data.skel EXCEPT ![r.oidx] = f.skel],
                                 heap |-> data.heap \cup skeleton_allocs(r.ret)]
                     /\ ret' = r.ret
                     /\ live' = live \cup {r.ret}
                     /\ UNCHANGED status
    /\ UNCHANGED <<ndebug, arg, retb, retm, stale>>

\* ung_skeleton_destroy(skel) on a handle create returned
SkeletonDestroy ==
    /\ status = "running"
    /\ \E h \in live :
         LET r == ung_slotmap_remove(sm, h)
         IN  /\ op' = "skeleton_destroy"
             /\ arg' = h
             /\ pre' = data
             /\ IF Aborts(r.asserts)
                THEN /\ status' = "assert"
                     /\ UNCHANGED <<sm, data, live, stale>>
                ELSE /\ sm' = r.s
                     /\ data' = [data EXCEPT !.heap = @ \ skeleton_frees(h)]
                     /\ live' = live \ {h}
                     /\ stale' = stale \cup {h}
                     /\ UNCHANGED status
    /\ UNCHANGED <<ndebug, arg2, ret, retb, retm, nops>>

NextSkel == SkeletonCreate \/ SkeletonDestroy

SpecSkel == InitSkel /\ [][NextSkel]_vars

----------------------------------------------------------------------------
(* Claims about skeleton creation and destruction *)

\* joint i's parent index, if non-negative, is < i
TopologicallyOrdered(parents) ==
    \A i \in 0..(Len(parents) - 1) : parents[i + 1] < i

ParentsOf(s) == [i \in 1..s.num_joints |-> s.joints[i].parent_index]

\* C13 as stated: in every live skeleton joint i's parent index, if
\* non-negative, is < i, because ung_skeleton_create rejects every other
\* joint array.
C13_TopologicalOrder_Original ==
    \A h \in live : TopologicallyOrdered(ParentsOf(data.skel[Slot(h)]))

\* C13 amended: in a build with assertions enabled ung_skeleton_create
\* aborts on a joint array that is not strictly topologically ordered, so
\* every live skeleton of such a build is ordered; a build with NDEBUG makes
\* no check and stores the parent indices as given.
C13_TopologicalOrder ==
    /\ ~ndebug => \A h \in live : TopologicallyOrdered(ParentsOf(data.skel[Slot(h)]))
    /\ (op = "skeleton_create" /\ ~ndebug /\ ~TopologicallyOrdered(arg2))
          => status = "assert"
    /\ (op = "skeleton_create" /\ ndebug /\ ret # NullKey)
          => ParentsOf(data.skel[Slot(ret)]) = arg2

C13_Witness ==
    /\ op = "skeleton_create"
    /\ ~ndebug
    /\ ~TopologicallyOrdered(arg2)
    /\ status = "assert"
    /\ live # {}

\* C14: after ung_skeleton_destroy(h) all five arrays of h are deallocated
\* and h is not a valid handle; at every point the live allocations are
\* exactly those of the live skeletons.
C14_DestroyFreesAll ==
    /\ data.heap = UNION {skeleton_allocs(h) : h \in live}
    /\ (op = "skeleton_destroy" /\ status = "running")
          => ~Pool_contains(sm, arg)

----------------------------------------------------------------------------
(* One skeleton, its pose buffer and its matrix caches *)

\* what a caller (or ung_animation_sample, or ung_blend_poses) stores into
\* the buffer ung_skeleton_get_joint_transforms returns
PoseValues ==
    {[translation |-> <<0, 1, 0>>, rotation |-> <<0, 0, 0, 1>>, scale |-> <<1, 1, 1>>],
     [translation |-> <<0, 0, 2>>, rotation |-> <<1, 0, 0, 0>>, scale |-> <<2, 1, 1>>]}

\* the state ung_skeleton_create(parents) leaves behind on an empty pool
SkeletonCreated(parents) ==
    LET r == ung_slotmap_insert(ung_slotmap_init(MaxSkeletons))
    IN  [sm |-> r.s, id |-> r.ret,
         data |-> [skel |-> [i \in 0..(MaxSkeletons - 1) |->
                               IF i = r.oidx THEN skeleton_fill(parents).skel
                               ELSE ZeroSkeleton],
                   heap |-> skeleton_allocs(r.ret)]]

\* a skeleton made from a joint array that meets the documented precondition
InitPose ==
    /\ \E parents \in {q \in JointParams : skeleton_fill(q).asserts} :
         LET c == SkeletonCreated(parents)
         IN  /\ sm = c.sm
             /\ data = c.data
             /\ pre = c.data
             /\ ret = c.id
             /\ live = {c.id}
             /\ arg2 = parents
    /\ ndebug \in BOOLEAN
    /\ status = "running"
    /\ op = "skeleton_create"
    /\ arg = NullKey
    /\ retb = FALSE
    /\ retm = 0
    /\ stale = {}
    /\ nops = [create |-> 1, set |-> 0, update |-> 0]

\* joints = ung_skeleton_get_joint_transforms(h, &n); joints[i] = v
SkeletonWritePose ==
    /\ status = "running"
    /\ nops.set < MaxPoseWrites
    /\ \E h \in live :
         \E i \in 0..(data.skel[Slot(h)].num_joints - 1) :
           \E v \in PoseValues :
             /\ op' = "write_pose"
             /\ arg' = h
             /\ retm' = i
             /\ pre' = data
             /\ data' = [data EXCEPT !.skel[Slot(h)].joint_transforms[i + 1] = v]
    /\ nops' = [nops EXCEPT !.set = @ + 1]
    /\ UNCHANGED <<sm, ndebug, status, arg2, ret, retb, live, stale>>

SkeletonResetToBindPose ==
    /\ status = "running"
    /\ \E h \in live :
         /\ op' = "reset_to_bind_pose"
         /\ arg' = h
         /\ pre' = data
         /\ data' = [data EXCEPT !.skel[Slot(h)] = ung_skeleton_reset_to_bind_pose(@)]
    /\ UNCHANGED <<sm, ndebug, status, arg2, ret, retb, retm, live, stale, nops>>

SkeletonUpdateJointMatrices ==
    /\ status = "running"
    /\ \E h \in live :
         /\ op' = "update_joint_matrices"
         /\ arg' = h
         /\ pre' = data
         /\ data' = [data EXCEPT !.skel[Slot(h)] = ung_skeleton_update_joint_matrices(@)]
    /\ UNCHANGED <<sm, ndebug, status, arg2, ret, retb, retm, live, stale, nops>>

NextPose == SkeletonWritePose \/ SkeletonResetToBindPose \/ SkeletonUpdateJointMatrices

SpecPose == InitPose /\ [][NextPose]_vars

\* T * R * S of a joint transform, written out from the claim
JointLocal(t) ==
    um_mat_mul(um_mat_translate(t.translation),
               um_mat_mul(um_mat_from_quat(t.rotation), um_mat_scale(t.scale)))

\* product, root first, of the local matrices along joint i's ancestor chain
RECURSIVE ChainProduct(_, _)
ChainProduct(s, i) ==
    LET parent == s.joints[i + 1].parent_index
        local == JointLocal(s.joint_transforms[i + 1])
    IN  IF parent < 0 THEN local ELSE um_mat_mul(ChainProduct(s, parent), local)

\* C11: after ung_skeleton_update_joint_matrices on a topologically ordered
\* skeleton, global[i] = global[parent(i)] * local(pose[i]) (local(pose[i])
\* for a root), skin[i] = global[i] * inverse_bind[i], and global[i] is the
\* root-first product of the current local matrices along i's ancestors,
\* all taken from the pose buffer as it was when the call was made.
C11_UpdateJointMatrices ==
    op = "update_joint_matrices" =>
        LET s == data.skel[Slot(arg)]
            p == pre.skel[Slot(arg)]
        IN  /\ s.joint_transforms = p.joint_transforms
            /\ \A i \in 0..(s.num_joints - 1) :
                 LET parent == s.joints[i + 1].parent_index
                     local == JointLocal(p.joint_transforms[i + 1])
                 IN  /\ s.global_transforms[i + 1] =
                            IF parent < 0 THEN local
                            ELSE um_mat_mul(s.global_transforms[parent + 1], local)
                     /\ s.joint_matrices[i + 1] =
                            um_mat_mul(s.global_transforms[i + 1],
                                       s.joints[i + 1].inverse_bind_matrix)
                     /\ s.global_transforms[i + 1] = ChainProduct(p, i)

C11_Witness ==
    /\ op = "update_joint_matrices"
    /\ LET s == data.skel[Slot(arg)]
       IN  /\ s.num_joints = 3
           /\ s.joints[3].parent_index = 1
           /\ s.joints[2].parent_index = 0
           /\ \A i \in 2..3 : s.joint_transforms[i] # s.local_bind[i]
           /\ s.joint_transforms[2] # s.joint_transforms[3]

AllPoseValues == PoseValues \cup {LocalBind(0)}

\* joint i and its ancestors
RECURSIVE SelfAndAncestors(_, _)
SelfAndAncestors(s, i) ==
    IF s.joints[i + 1].parent_index < 0 THEN {i}
    ELSE {i} \cup SelfAndAncestors(s, s.joints[i + 1].parent_index)

\* C12: the global and skin matrix of joint i depend only on the poses of i
\* and of i's ancestors: a run on the same skeleton with a pose buffer that
\* differs only at other joints yields the same global[i] and skin[i].
C12_AncestorsOnly ==
    op = "update_joint_matrices" =>
        LET s == data.skel[Slot(arg)]
            p == pre.skel[Slot(arg)]
            n == s.num_joints
        IN  \A i \in 0..(n - 1) :
              \A q \in [1..n -> AllPoseValues] :
                (\A a \in SelfAndAncestors(p, i) : q[a + 1] = p.joint_transforms[a + 1])
                  => LET alt == ung_skeleton_update_joint_matrices(
                                    [p EXCEPT !.joint_transforms = q])
                     IN  /\ alt.global_transforms[i + 1] = s.global_transforms[i + 1]
                         /\ alt.joint_matrices[i + 1] = s.joint_matrices[i + 1]

C12_Witness ==
    /\ op = "update_joint_matrices"
    /\ LET s == data.skel[Slot(arg)]
       IN  /\ s.num_joints = 3
           /\ s.joints[2].parent_index = -1
           /\ s.joints[3].parent_index = 0
           /\ s.joint_transforms[2] # s.local_bind[2]
           /\ s.joint_transforms[3] # s.local_bind[3]

----------------------------------------------------------------------------
(* Animations (src/src/animation.cpp)                                      *)
(*                                                                         *)
(* Times and values are small integers, which a float holds exactly; the   *)
(* sample times are spaced by powers of two and the vec3 values are        *)
(* multiples of four, so every quotient taken below is exact.  A channel   *)
(* has a sampler type that fits its dof, at least one sample and strictly  *)
(* ascending times; quaternion channels are step channels (um_quat_slerp   *)
(* needs acosf and sinf).                                                  *)
(*                                                                         *)
(* In SpecAnim the variables hold: sm = Pool<Animation>::sm, data =        *)
(* Pool<Animation>::data, arg = the handle passed, arg2 = the parameters   *)
(* of the last call, pre = the joints memory before the last sample, retm  *)
(* = the joints memory after it (or the duration returned), retb = the set *)
(* of joints[] indices the last sample referenced.                         *)

\* sample times t range over -MaxTime + 4 .. MaxTime
MaxTime == 7
\* joints[] arrays have 1..MaxNumJoints elements
MaxNumJoints == 2

\* Pool::insert's memset of the slot
ZeroAnimation == [duration_s |-> 0, channels |-> <<>>]

\* integer square root, exact on the squares um_quat_len meets here
Isqrt(n) == CHOOSE r \in 0..n : r * r <= n /\ n < (r + 1) * (r + 1)

um_quat_len(q) == Isqrt(q[1] * q[1] + q[2] * q[2] + q[3] * q[3] + q[4] * q[4])

\* len < 0.0001f is len = 0 on integers
um_quat_normalized(q) ==
    LET len == um_quat_len(q)
    IN  IF len = 0 THEN um_quat_identity
        ELSE <<q[1] \div len, q[2] \div len, q[3] \div len, q[4] \div len>>

\* the channels a caller passes to ung_animation_create, but for the joint
Shapes ==
    {[dof |-> "TRANSLATION", sampler_type |-> "VEC3", interp_type |-> "LINEAR",
      num_samples |-> 3, times |-> <<0, 2, 4>>,
      values |-> << <<0, 0, 0>>, <<8, 0, 4>>, <<4, 8, 0>> >>],
     [dof |-> "TRANSLATION", sampler_type |-> "VEC3", interp_type |-> "STEP",
      num_samples |-> 3, times |-> <<0, 2, 4>>,
      values |-> << <<0, 0, 0>>, <<8, 0, 4>>, <<4, 8, 0>> >>],
     [dof |-> "SCALE", sampler_type |-> "VEC3", interp_type |-> "LINEAR",
      num_samples |-> 2, times |-> <<-2, 2>>,
      values |-> << <<4, 4, 4>>, <<8, 0, 12>> >>],
     [dof |-> "SCALE", sampler_type |-> "VEC3", interp_type |-> "LINEAR",
      num_samples |-> 1, times |-> <<2>>,
      values |-> << <<12, 8, 4>> >>],
     [dof |-> "ROTATION", sampler_type |-> "QUAT", interp_type |-> "STEP",
      num_samples |-> 1, times |-> <<2>>,
      values |-> << <<0, 0, 0, 2>> >>],
     [dof |-> "ROTATION", sampler_type |-> "QUAT", interp_type |-> "STEP",
      num_samples |-> 2, times |-> <<0, 4>>,
      values |-> << <<0, 0, 0, 1>>, <<3, 0, 0, 0>> >>]}

\* key.joint_index of a channel: MaxNumJoints is out of range of every array
ChannelParams ==
    {[key |-> [joint_index |-> j, dof |-> sh.dof],
      sampler_type |-> sh.sampler_type, interp_type |-> sh.interp_type,
      num_samples |-> sh.num_samples, times |-> sh.times, values |-> sh.values] :
        j \in 0..MaxNumJoints, sh \in Shapes}

\* params.duration_s
Durations == {-1, 3, 6}

AnimationParams ==
    {[channels |-> cs, duration_s |-> d] :
        cs \in {<<a>> : a \in ChannelParams}
                 \cup {<<a, b>> : a \in ChannelParams, b \in ChannelParams},
        d \in Durations}

\* the copy of one channel made by ung_animation_create (lines 275-300):
\* asserts is assert(times[s] < times[s + 1]) over the samples
channel_copy(src) ==
    [asserts |-> \A k \in 1..(src.num_samples - 1) : src.times[k] < src.times[k + 1],
     ch |-> [key |-> src.key,
             sampler_type |-> src.sampler_type,
             interp_type |-> src.interp_type,
             num_samples |-> src.num_samples,
             times |-> src.times,
             values |-> IF src.sampler_type = "VEC3" THEN src.values
                        ELSE [k \in 1..src.num_samples |->
                                um_quat_normalized(src.values[k])]]]

\* animation_fill that derives the duration from the channels
animation_fill_MaxTime(params) ==
    LET n == Len(params.channels)
        last == {params.channels[c].times[params.channels[c].num_samples] : c \in 1..n}
    IN  [asserts |-> \A c \in 1..n : channel_copy(params.channels[c]).asserts,
         anim |-> [duration_s |-> CHOOSE m \in last : \A x \in last : x <= m,
                   channels |-> [c \in 1..n |-> channel_copy(params.channels[c]).ch]]]

\* lines 270-301 of ung_animation_create
animation_fill(params) ==
    LET n == Len(params.channels)
    IN  [asserts |-> \A c \in 1..n : channel_copy(params.channels[c]).asserts,
         anim |-> [duration_s |-> params.duration_s,
                   channels |-> [c \in 1..n |-> channel_copy(params.channels[c]).ch]]]

ung_animation_get_duration(anim) == anim.duration_s

Min(a, b) == IF a <= b THEN a ELSE b

Max(a, b) == IF a >= b THEN a ELSE b

\* clamp: asserts is assert(lo <= hi), v is fminf(fmaxf(v, lo), hi)
clamp(v, lo, hi) == [asserts |-> lo <= hi, v |-> Min(Max(v, lo), hi)]

\* the while loop of find_interval
RECURSIVE find_interval_loop(_, _, _, _)
find_interval_loop(times, t, low, high) ==
    IF high > low + 1
    THEN LET mid == (low + high) \div 2
         IN  IF t >= times[mid + 1]
             THEN find_interval_loop(times, t, mid, high)
             ELSE find_interval_loop(times, t, low, mid)
    ELSE low

\* find_interval: 0-based index i0 of the interval, times[i] is times[i + 1]
find_interval(times, t) ==
    LET high == Len(times)
    IN  IF t <= times[1] THEN 0
        ELSE IF t >= times[high] THEN high - 2
        ELSE find_interval_loop(times, t, 0, high)

\* unlerp: the fraction (clamp(t, t0, t1) - t0) / (t1 - t0) as n / d
unlerp(t, t0, t1) == [n |-> clamp(t, t0, t1).v - t0, d |-> t1 - t0]

\* um_vec3_lerp with t = u.n / u.d
um_vec3_lerp(a, b, u) ==
    <<a[1] + ((b[1] - a[1]) * u.n) \div u.d,
      a[2] + ((b[2] - a[2]) * u.n) \div u.d,
      a[3] + ((b[3] - a[3]) * u.n) \div u.d>>

\* interp (vec3) whose step branch switches only after t1
interp_vec3_StepLate(interp, t0, v0, t1, v1, t) ==
    IF interp = "STEP" \/ t0 = t1
    THEN IF t <= t1 THEN v0 ELSE v1
    ELSE um_vec3_lerp(v0, v1, unlerp(t, t0, t1))

\* interp for um_vec3
interp_vec3(interp, t0, v0, t1, v1, t) ==
    IF interp = "STEP" \/ t0 = t1
    THEN IF t < t1 THEN v0 ELSE v1
    ELSE um_vec3_lerp(v0, v1, unlerp(t, t0, t1))

\* interp for um_quat, step branch
interp_quat(interp, t0, q0, t1, q1, t) == IF t < t1 THEN q0 ELSE q1

\* write_dof that looks at the dof only, not at the sampler type
write_dof_AnySampler(joint, ch, v) ==
    IF ch.key.dof = "TRANSLATION" THEN [joint EXCEPT !.translation = v]
    ELSE IF ch.key.dof = "SCALE" THEN [joint EXCEPT !.scale = v]
    ELSE [joint EXCEPT !.rotation = v]

\* the writes of lines 413-425 and 433-451: only a dof that fits the sampler
write_dof(joint, ch, v) ==
    IF ch.sampler_type = "VEC3" /\ ch.key.dof = "TRANSLATION"
    THEN [joint EXCEPT !.translation = v]
    ELSE IF ch.sampler_type = "VEC3" /\ ch.key.dof = "SCALE"
    THEN [joint EXCEPT !.scale = v]
    ELSE IF ch.sampler_type = "QUAT" /\ ch.key.dof = "ROTATION"
    THEN [joint EXCEPT !.rotation = v]
    ELSE joint

\* the value one channel yields at clamped time t (lines 412-446)
channel_value(ch, t) ==
    IF ch.num_samples = 1 THEN ch.values[1]
    ELSE LET i0 == find_interval(ch.times, t)
             i1 == i0 + 1
         IN  IF ch.sampler_type = "VEC3"
             THEN interp_vec3(ch.interp_type, ch.times[i0 + 1], ch.values[i0 + 1],
                              ch.times[i1 + 1], ch.values[i1 + 1], t)
             ELSE interp_quat(ch.interp_type, ch.times[i0 + 1], ch.values[i0 + 1],
                              ch.times[i1 + 1], ch.values[i1 + 1], t)

\* sample_channel whose range check is joint_index > num_joints
sample_channel_OffByOne(ch, t, mem, num_joints) ==
    IF ch.key.joint_index > num_joints
    THEN [mem |-> mem, touched |-> {}]
    ELSE IF ch.num_samples = 0
    THEN [mem |-> mem, touched |-> {ch.key.joint_index}]
    ELSE [mem |-> [mem EXCEPT ![ch.key.joint_index + 1] =
                                  write_dof(@, ch, channel_value(ch, t))],
          touched |-> {ch.key.joint_index}]

\* one iteration of the channel loop of ung_animation_sample (lines 399-451);
\* mem is the memory at joints, touched the indices of joints[] referenced
sample_channel(ch, t, mem, num_joints) ==
    IF ch.key.joint_index >= num_joints
    THEN [mem |-> mem, touched |-> {}]
    ELSE IF ch.num_samples = 0
    THEN [mem |-> mem, touched |-> {ch.key.joint_index}]
    ELSE [mem |-> [mem EXCEPT ![ch.key.joint_index + 1] =
                                  write_dof(@, ch, channel_value(ch, t))],
          touched |-> {ch.key.joint_index}]

\* for (u32 c = from; c < anim->channels.size; ++c)
RECURSIVE sample_channels(_, _, _, _, _, _)
sample_channels(chs, from, t, mem, num_joints, touched) ==
    IF from > Len(chs) THEN [mem |-> mem, touched |-> touched]
    ELSE LET r == sample_channel(chs[from], t, mem, num_joints)
         IN  sample_channels(chs, from + 1, t, r.mem, num_joints,
                             touched \cup r.touched)

\* ung_animation_sample that passes t on as given
ung_animation_sample_NoClamp(anim, t, mem, num_joints) ==
    LET r == sample_channels(anim.channels, 1, t, mem, num_joints, {})
    IN  [asserts |-> clamp(t, 0, anim.duration_s).asserts,
         mem |-> r.mem, touched |-> r.touched]

\* ung_animation_sample: asserts is the assertion of clamp(t, 0, duration_s)
ung_animation_sample(anim, t, mem, num_joints) ==
    LET c == clamp(t, 0, anim.duration_s)
        r == sample_channels(anim.channels, 1, c.v, mem, num_joints, {})
    IN  [asserts |-> c.asserts, mem |-> r.mem, touched |-> r.touched]

\* the memory at the joints pointer a caller passes to ung_animation_sample:
\* the first num_joints elements are the caller's array, the rest lies
\* behind it
JointsMemory ==
    [k \in 1..(MaxNumJoints + 1) |->
       [translation |-> <<k, k, k>>, rotation |-> <<0, 0, 1, 0>>, scale |-> <<1, 1, k>>]]

\* the t a caller passes
TimeArgs == (4 - MaxTime)..MaxTime

\* the state ung_animation_create(params) leaves behind on an empty pool
AnimationCreated(params) ==
    LET r == ung_slotmap_insert(ung_slotmap_init(1))
    IN  [sm |-> r.s, id |-> r.ret,
         data |-> [i \in {r.oidx} |-> animation_fill(params).anim]]

InitAnim ==
    /\ \E params \in AnimationParams :
         LET c == AnimationCreated(params)
         IN  /\ sm = c.sm
             /\ data = c.data
             /\ ret = c.id
             /\ live = {c.id}
             /\ arg2 = params
    /\ ndebug \in BOOLEAN
    /\ status = "running"
    /\ op = "animation_create"
    /\ arg = NullKey
    /\ pre = JointsMemory
    /\ retb = [t |-> 0, num_joints |-> 0, touched |-> {}]
    /\ retm = JointsMemory
    /\ stale = {}
    /\ nops = [create |-> 1, set |-> 0, update |-> 0]

\* ung_animation_get_duration(anim)
AnimationGetDuration ==
    /\ status = "running"
    /\ \E h \in live :
         /\ op' = "get_duration"
         /\ arg' = h
         /\ retm' = ung_animation_get_duration(data[Slot(h)])
    /\ UNCHANGED <<sm, data, ndebug, status, arg2, pre, ret, retb, live, stale, nops>>

\* ung_animation_sample(anim, t, joints, num_joints) on a fresh joints array
AnimationSample ==
    /\ status = "running"
    /\ \E h \in live :
         \E t \in TimeArgs :
           \E n \in 1..MaxNumJoints :
             LET r == ung_animation_sample(data[Slot(h)], t, JointsMemory, n)
             IN  /\ op' = "sample"
                 /\ arg' = h
                 /\ pre' = JointsMemory
                 /\ IF Aborts(r.asserts)
                    THEN /\ status' = "assert"
                         /\ retb' = [t |-> t, num_joints |-> n, touched |-> {}]
                         /\ retm' = JointsMemory
                    ELSE /\ retb' = [t |-> t, num_joints |-> n, touched |-> r.touched]
                         /\ retm' = r.mem
                         /\ UNCHANGED status
    /\ UNCHANGED <<sm, data, ndebug, arg2, ret, live, stale, nops>>

NextAnim == AnimationGetDuration \/ AnimationSample

SpecAnim == InitAnim /\ [][NextAnim]_vars

----------------------------------------------------------------------------
(* Claims about animations *)

\* maximum over the channels passed to create of the final sample time
MaxFinalTime(params) ==
    LET last == {params.channels[c].times[params.channels[c].num_samples] :
                    c \in DOMAIN params.channels}
    IN  CHOOSE m \in last : \A x \in last : x <= m

\* C15 as stated: ung_animation_get_duration returns the maximum over all
\* channels of the channel's final sample time, for every set of channels
\* passed to ung_animation_create.
C15_Duration_Original ==
    op = "get_duration" => retm = MaxFinalTime(arg2)

\* C15 amended: ung_animation_get_duration returns the duration_s passed to
\* ung_animation_create, fixed at creation, whatever the channels are.
C15_Duration ==
    op = "get_duration" => retm = arg2.duration_s

C15_Witness ==
    /\ op = "get_duration"
    /\ arg2.duration_s # MaxFinalTime(arg2)
    /\ arg2.duration_s > 0

\* the channels of the sampled animation, the clamped time and the array size
SampledChannels == data[Slot(arg)].channels

\* channel c is within the array and no later channel has the same key
LastWriter(chs, c, n) ==
    /\ chs[c].key.joint_index < n
    /\ \A c2 \in DOMAIN chs : c2 > c => chs[c2].key # chs[c].key

\* the field of a joint transform a dof names
DofOf(joint, dof) ==
    IF dof = "TRANSLATION" THEN joint.translation
    ELSE IF dof = "SCALE" THEN joint.scale
    ELSE joint.rotation

C17_Interpolation ==
    (op = "sample" /\ status = "running") =>
        LET anim == data[Slot(arg)]
            n == retb.num_joints
            t == clamp(retb.t, 0, anim.duration_s).v
        IN  \A c \in DOMAIN anim.channels :
              LET ch == anim.channels[c]
                  got == DofOf(retm[ch.key.joint_index + 1], ch.key.dof)
                  m == ch.num_samples
              IN  (m >= 2 /\ LastWriter(anim.channels, c, n)) =>
                    /\ t < ch.times[1] => got = ch.values[1]
                    /\ t > ch.times[m] => got = ch.values[m]
                    /\ ch.interp_type = "STEP" =>
                         \A i \in 1..m :
                           (ch.times[i] <= t /\ (i = m \/ t < ch.times[i + 1]))
                             => got = ch.values[i]
                    /\ (ch.interp_type = "LINEAR" /\ ch.sampler_type = "VEC3") =>
                         \A k \in 1..(m - 1) :
                           (ch.times[k] <= t /\ t <= ch.times[k + 1]) =>
                             \A x \in 1..3 :
                               (got[x] - ch.values[k][x]) * (ch.times[k + 1] - ch.times[k])
                                 = (ch.values[k + 1][x] - ch.values[k][x]) * (t - ch.times[k])

C17_Witness ==
    /\ op = "sample"
    /\ status = "running"
    /\ retb.t = 1
    /\ retb.num_joints = 2
    /\ Len(arg2.channels) = 2
    /\ arg2.channels[1].interp_type = "LINEAR"
    /\ arg2.channels[1].key = [joint_index |-> 0, dof |-> "TRANSLATION"]
    /\ arg2.channels[2].interp_type = "STEP"
    /\ arg2.channels[2].key = [joint_index |-> 1, dof |-> "TRANSLATION"]
    /\ retm[1].translation = <<4, 0, 2>>
    /\ retm[2].translation = <<0, 0, 0>>

\* the channels whose joint_index is within an array of n joints
InRange(chs, n) == SelectSeq(chs, LAMBDA ch : ch.key.joint_index < n)

\* C18: a channel whose joint_index >= num_joints is skipped: nothing is
\* written for it, joints[] is referenced only at indices 0..num_joints-1,
\* the memory behind the array is untouched, the call does not fail because
\* of it, and the joints end up as if the animation had only its other
\* channels.
C18_SkipOutOfRange ==
    /\ (op = "sample" /\ status = "running") =>
         LET anim == data[Slot(arg)]
             n == retb.num_joints
         IN  /\ retb.touched \subseteq 0..(n - 1)
             /\ \A k \in (n + 1)..(MaxNumJoints + 1) : retm[k] = pre[k]
             /\ retm = ung_animation_sample(
                           [anim EXCEPT !.channels = InRange(@, n)],
                           retb.t, pre, n).mem
    /\ (op = "sample" /\ status # "running") =>
         (~ndebug /\ data[Slot(arg)].duration_s < 0)

C18_Witness ==
    /\ op = "sample"
    /\ status = "running"
    /\ Len(arg2.channels) = 2
    /\ arg2.channels[1].key.joint_index = retb.num_joints
    /\ arg2.channels[2].key.joint_index = 0
    /\ retm[1] # pre[1]

----------------------------------------------------------------------------
(* Pose blending (ung_blend_poses, src/src/animation.cpp)                  *)
(*                                                                         *)
(* Weights and mask entries are fixed-point numbers with Unit standing for *)
(* 1.0f; translations and scales are multiples of Unit, so every product   *)
(* of a value and a weight is exact.  In SpecBlend arg2 holds the          *)
(* arguments of ung_blend_poses, pre the out array before the call and     *)
(* retm the out array after it.                                            *)

\* 1.0f in the fixed-point weights
Unit == 4

\* a float product x * w with w in fixed point
FMul(x, w) == (x * w) \div Unit

\* qdot
qdot(a, b) == a[4] * b[4] + a[1] * b[1] + a[2] * b[2] + a[3] * b[3]

\* qmix that fills the fields in their declared order x, y, z, w
qmix_FieldOrder(a, wa, b, wb) ==
    <<a[1] * wa + b[1] * wb,
      a[2] * wa + b[2] * wb,
      a[3] * wa + b[3] * wb,
      a[4] * wa + b[4] * wb>>

\* qmix: the initialiser lists the w sum first, and um_quat is { x, y, z, w },
\* so the w sum lands in x, the x sum in y, the y sum in z, the z sum in w.
\* The sums are kept times Unit; um_quat_normalized cancels the factor.
qmix(a, wa, b, wb) ==
    <<a[4] * wa + b[4] * wb,
      a[1] * wa + b[1] * wb,
      a[2] * wa + b[2] * wb,
      a[3] * wa + b[3] * wb>>

\* blend_joint that leaves joint_mask out of b's weight
blend_joint_NoMask(a, a_weight, b, b_weight, mask) ==
    LET wa == a_weight
        wb == b_weight
        sgn == IF qdot(a.rotation, b.rotation) >= 0 THEN 1 ELSE -1
    IN  [translation |-> [k \in 1..3 |->
                            FMul(a.translation[k], wa) + FMul(b.translation[k], wb)],
         scale |-> [k \in 1..3 |-> FMul(a.scale[k], wa) + FMul(b.scale[k], wb)],
         rotation |-> um_quat_normalized(qmix(a.rotation, wa, b.rotation, wb * sgn))]

\* one iteration of the loop of ung_blend_poses (lines 236-258)
blend_joint(a, a_weight, b, b_weight, mask) ==
    LET wa == a_weight
        wb == FMul(b_weight, mask)
        sgn == IF qdot(a.rotation, b.rotation) >= 0 THEN 1 ELSE -1
    IN  [translation |-> [k \in 1..3 |->
                            FMul(a.translation[k], wa) + FMul(b.translation[k], wb)],
         scale |-> [k \in 1..3 |-> FMul(a.scale[k], wa) + FMul(b.scale[k], wb)],
         rotation |-> um_quat_normalized(qmix(a.rotation, wa, b.rotation, wb * sgn))]

\* ung_blend_poses: joint_mask = <<>> stands for NULL
ung_blend_poses(a, a_weight, b, b_weight, joint_mask, out, num_joints) ==
    [i \in DOMAIN out |->
       IF i <= num_joints
       THEN blend_joint(a[i], a_weight, b[i], b_weight,
                        IF joint_mask = <<>> THEN Unit ELSE joint_mask[i])
       ELSE out[i]]

\* rotations of a[i] and b[i]: pairs on one axis, equal or opposite
RotationPairs ==
    {<< <<0, 0, 0, 1>>, <<0, 0, 0, 1>> >>,
     << <<0, 0, 0, 1>>, <<0, 0, 0, -1>> >>,
     << <<1, 0, 0, 0>>, <<-1, 0, 0, 0>> >>,
     << <<0, 1, 0, 0>>, <<0, 1, 0, 0>> >>}

\* a_weight, b_weight and mask entries: 0, 0.5, 1 and 2
Weights == {0, 2, 4, 8}

MaskValues == {0, 2, 4}

\* the a and b arrays for a choice of rotation pairs
PoseA(rots) ==
    [i \in DOMAIN rots |->
       [translation |-> <<4 * i, 0, 8>>, rotation |-> rots[i][1], scale |-> <<4, 4, 4>>]]

PoseB(rots) ==
    [i \in DOMAIN rots |->
       [translation |-> <<8, 4, 0>>, rotation |-> rots[i][2], scale |-> <<8, 4 * i, 4>>]]

BlendArgs ==
    UNION {{[a |-> PoseA(rots), a_weight |-> wa, b |-> PoseB(rots), b_weight |-> wb,
             joint_mask |-> m, num_joints |-> n] :
               rots \in [1..n -> RotationPairs],
               wa \in Weights \ {8}, wb \in Weights \ {0},
               m \in {<<>>} \cup [1..n -> MaskValues]} : n \in 1..MaxNumJoints}

InitBlend ==
    /\ arg2 \in BlendArgs
    /\ sm = ung_slotmap_init(1)
    /\ data = <<>>
    /\ ndebug \in BOOLEAN
    /\ status = "running"
    /\ op = "init"
    /\ arg = NullKey
    /\ pre = JointsMemory
    /\ ret = NullKey
    /\ retb = FALSE
    /\ retm = JointsMemory
    /\ live = {}
    /\ stale = {}
    /\ nops = [create |-> 0, set |-> 0, update |-> 0]

\* ung_blend_poses(a, a_weight, b, b_weight, joint_mask, out, num_joints)
BlendPoses ==
    /\ status = "running"
    /\ op' = "blend_poses"
    /\ pre' = JointsMemory
    /\ retm' = ung_blend_poses(arg2.a, arg2.a_weight, arg2.b, arg2.b_weight,
                               arg2.joint_mask, JointsMemory, arg2.num_joints)
    /\ UNCHANGED <<sm, data, ndebug, status, arg, arg2, ret, retb, live, stale, nops>>

NextBlend == BlendPoses

SpecBlend == InitBlend /\ [][NextBlend]_vars

\* mask[i]: joint_mask[i], or 1 when joint_mask is NULL
MaskAt(i) == IF arg2.joint_mask = <<>> THEN Unit ELSE arg2.joint_mask[i]

\* C19: for every joint i < num_joints and each component, out[i].translation
\* = a[i].translation * a_weight + b[i].translation * b_weight * mask[i], the
\* same for scale, with mask[i] = 1 when joint_mask is NULL and the weights
\* used as given.
C19_BlendLinear ==
    op = "blend_poses" =>
        \A i \in 1..arg2.num_joints : \A k \in 1..3 :
          /\ retm[i].translation[k] * Unit * Unit =
                 arg2.a[i].translation[k] * arg2.a_weight * Unit
                 + arg2.b[i].translation[k] * arg2.b_weight * MaskAt(i)
          /\ retm[i].scale[k] * Unit * Unit =
                 arg2.a[i].scale[k] * arg2.a_weight * Unit
                 + arg2.b[i].scale[k] * arg2.b_weight * MaskAt(i)

C19_Witness ==
    /\ op = "blend_poses"
    /\ arg2.num_joints = 2
    /\ arg2.a_weight = 2
    /\ arg2.b_weight = 8
    /\ arg2.joint_mask = <<2, 0>>
    /\ retm[1].translation = <<10, 4, 4>>
    /\ retm[2].translation = <<4, 0, 4>>

\* u is a positive multiple of v, component by component
Proportional(u, v) ==
    /\ \A j \in 1..4 : \A k \in 1..4 : u[j] * v[k] = u[k] * v[j]
    /\ qdot(u, v) > 0

\* C20: out[i].rotation is proportional, component by component in the
\* component order of the inputs, to a[i].rotation * a_weight + s *
\* b[i].rotation * b_weight * mask[i], s = -1 if dot(a, b) < 0 and +1
\* otherwise; blending q with -q at weights 0.5 / 0.5 gives q or -q.
C20_BlendRotation ==
    op = "blend_poses" =>
        \A i \in 1..arg2.num_joints :
          LET qa == arg2.a[i].rotation
              qb == arg2.b[i].rotation
              s == IF qdot(qa, qb) < 0 THEN -1 ELSE 1
              sum == [k \in 1..4 |-> qa[k] * arg2.a_weight * Unit
                                      + s * qb[k] * arg2.b_weight * MaskAt(i)]
          IN  sum # <<0, 0, 0, 0>> => Proportional(retm[i].rotation, sum)

----------------------------------------------------------------------------
(* Further claims *)

\* C21: ung_skeleton_reset_to_bind_pose makes the pose buffer equal to the
\* pose right after ung_skeleton_create, whatever was written to the buffer
\* in between, and no operation changes the stored bind pose.
C21_ResetToBindPose ==
    \A h \in live :
      LET s == data.skel[Slot(h)]
          created == skeleton_fill(arg2).skel
      IN  /\ s.local_bind = created.local_bind
          /\ (op = "reset_to_bind_pose" /\ arg = h)
                => s.joint_transforms = created.joint_transforms

C21_Witness ==
    /\ op = "reset_to_bind_pose"
    /\ nops.set = MaxPoseWrites
    /\ \E i \in 1..pre.skel[Slot(arg)].num_joints :
         pre.skel[Slot(arg)].joint_transforms[i] # pre.skel[Slot(arg)].local_bind[i]
    /\ pre.skel[Slot(arg)].num_joints = MaxJoints
    /\ pre.skel[Slot(arg)].joint_transforms[MaxJoints]
         # pre.skel[Slot(arg)].local_bind[MaxJoints]

\* slot i does not carry the free flag
Alive(s, i) == s.keys[i].hi = 0

\* the slots met by following the next-free links from slot i, and where the
\* walk ends
RECURSIVE FreeChain(_, _, _)
FreeChain(s, i, fuel) ==
    IF i >= s.capacity \/ fuel = 0 THEN <<i>>
    ELSE <<i>> \o FreeChain(s, ung_slotmap_get_index(s.keys[i]), fuel - 1)

\* the index stored in keys[i] equals i iff slot i is alive
C22_IndexIffAlive ==
    \A i \in 0..(sm.capacity - 1) :
      (ung_slotmap_get_index(sm.keys[i]) = i) <=> Alive(sm, i)

\* the free list visits every free slot exactly once and ends at capacity
C22_FreeList ==
    LET chain == FreeChain(sm, sm.free_list_head, sm.capacity)
        n == Len(chain)
    IN  /\ chain[n] = sm.capacity
        /\ \A j, k \in 1..n : j # k => chain[j] # chain[k]
        /\ {chain[j] : j \in 1..(n - 1)} = {i \in 0..(sm.capacity - 1) : ~Alive(sm, i)}

\* ung_slotmap_get_key(i) is non-zero exactly for alive slots
C22_GetKeyNonZero ==
    \A i \in 0..(sm.capacity - 1) :
      (ung_slotmap_get_key(sm, i) # NullKey) <=> Alive(sm, i)

\* C22: in every state reachable from ung_slotmap_init by insert / remove the
\* index stored in keys[i] equals i iff slot i is alive, so
\* ung_slotmap_get_key(i) is non-zero exactly for alive slots, and the
\* next-free links from free_list_head visit every free slot exactly once
\* and end at capacity.
C22_SlotInvariant == C22_IndexIffAlive /\ C22_GetKeyNonZero /\ C22_FreeList

\* generations below 2^24 on both sides of 2^8, and the largest one
KeyGens == 0..(GenWrap + 1) \cup {GenMask - 1}

\* indices below 2^24
KeyIdxs == {0, 1, Capacity, GenMask - 1}

\* C24: for every idx < 2^24 and gen < 2^24 the key make_key(idx, gen)
\* decodes to idx through ung_slotmap_get_index and to gen through
\* ung_slotmap_get_generation, and the generation kept for a slot grows by
\* exactly one per removal of that slot.
C24_KeyPacking ==
    /\ \A idx \in KeyIdxs : \A gen \in KeyGens :
         /\ ung_slotmap_get_index(make_key(idx, gen)) = idx
         /\ ung_slotmap_get_generation(make_key(idx, gen)) = gen
    /\ (op = "remove" /\ status = "running" /\ retb) =>
         ung_slotmap_get_generation(sm.keys[ung_slotmap_get_index(arg)])
           = ung_slotmap_get_generation(arg) + 1

\* the same with generations below 2^8 only, and growth modulo 2^8
C24_KeyPacking8 ==
    /\ \A idx \in KeyIdxs : \A gen \in 0..(GenWrap - 1) :
         /\ ung_slotmap_get_index(make_key(idx, gen)) = idx
         /\ ung_slotmap_get_generation(make_key(idx, gen)) = gen
    /\ (op = "remove" /\ status = "running" /\ retb) =>
         ung_slotmap_get_generation(sm.keys[ung_slotmap_get_index(arg)])
           = (ung_slotmap_get_generation(arg) + 1) % GenWrap

\* the chain first_child -> next_sibling -> ... of p, cut off after one link
\* more than there are slots
ChildChain(p) == SiblingChain(data, data[Slot(p)].first_child, sm.capacity + 1)

----------------------------------------------------------------------------
(* find_interval, one loop iteration per step                               *)
(*                                                                         *)
(* In SpecInterval arg2 holds the arguments [times, t], pre the locals     *)
(* [low, high], op the place in the function ("find_interval" at entry,    *)
(* "loop" at the while test, "done" after return) and retm the index       *)
(* returned.                                                               *)

\* most entries of a time array
MaxSamples == 6
\* sample times are taken from 0..MaxGrid
MaxGrid == 6

\* the elements of a set of numbers in ascending order
RECURSIVE Ascending(_)
Ascending(S) ==
    IF S = {} THEN <<>>
    ELSE LET m == CHOOSE x \in S : \A y \in S : x <= y
         IN  <<m>> \o Ascending(S \ {m})

\* strictly ascending time arrays of 2..MaxSamples entries, and every t
\* around and between them; nan says that the float t is a NaN, and then
\* the number t is of no meaning
IntervalArgs ==
    {[times |-> Ascending(S), t |-> t, nan |-> FALSE] :
        S \in {X \in SUBSET (0..MaxGrid) : Cardinality(X) >= 2 /\ Cardinality(X) <= MaxSamples},
        t \in -1..(MaxGrid + 1)}
    \cup
    {[times |-> Ascending(S), t |-> 0, nan |-> TRUE] :
        S \in {X \in SUBSET (0..MaxGrid) : Cardinality(X) >= 2 /\ Cardinality(X) <= MaxSamples}}

\* t <= x and t >= x on floats: every comparison with a NaN is false
float_le(a, x) == ~a.nan /\ a.t <= x
float_ge(a, x) == ~a.nan /\ a.t >= x

\* body of the while loop that compares with > instead of >=
find_interval_step_Strict(a, low, high) ==
    LET mid == (low + high) \div 2
    IN  IF ~a.nan /\ a.t > a.times[mid + 1] THEN [low |-> mid, high |-> high]
        ELSE [low |-> low, high |-> mid]

\* body of the while loop of find_interval (lines 344-349)
find_interval_step(a, low, high) ==
    LET mid == (low + high) \div 2
    IN  IF float_ge(a, a.times[mid + 1]) THEN [low |-> mid, high |-> high]
        ELSE [low |-> low, high |-> mid]

InitInterval ==
    /\ arg2 \in IntervalArgs
    /\ pre = [low |-> 0, high |-> Len(arg2.times)]
    /\ op = "find_interval"
    /\ retm = 0
    /\ sm = ung_slotmap_init(1)
    /\ data = <<>>
    /\ ndebug \in BOOLEAN
    /\ status = "running"
    /\ arg = NullKey
    /\ ret = NullKey
    /\ retb = FALSE
    /\ live = {}
    /\ stale = {}
    /\ nops = [create |-> 0, set |-> 0, update |-> 0]

\* lines 331-341: the two early returns
FindIntervalEntry ==
    /\ op = "find_interval"
    /\ IF float_le(arg2, arg2.times[1])
       THEN op' = "done" /\ retm' = 0
       ELSE IF float_ge(arg2, arg2.times[pre.high])
       THEN op' = "done" /\ retm' = pre.high - 2
       ELSE op' = "loop" /\ retm' = retm
    /\ UNCHANGED <<sm, data, ndebug, status, arg, arg2, pre, ret, retb, live, stale, nops>>

\* one iteration of while (high > low + 1)
FindIntervalLoop ==
    /\ op = "loop"
    /\ pre.high > pre.low + 1
    /\ pre' = find_interval_step(arg2, pre.low, pre.high)
    /\ UNCHANGED <<sm, data, ndebug, status, op, arg, arg2, ret, retb, retm, live, stale, nops>>

\* return low
FindIntervalReturn ==
    /\ op = "loop"
    /\ ~(pre.high > pre.low + 1)
    /\ op' = "done"
    /\ retm' = pre.low
    /\ UNCHANGED <<sm, data, ndebug, status, arg, arg2, pre, ret, retb, live, stale, nops>>

NextInterval == FindIntervalEntry \/ FindIntervalLoop \/ FindIntervalReturn

\* a call that has started runs on
SpecInterval == InitInterval /\ [][NextInterval]_vars /\ WF_vars(NextInterval)

\* what find_interval is said to return for the arguments a
IntervalOk(a, i) ==
    LET n == Len(a.times)
    IN  /\ i \in 0..(n - 2)
        /\ float_le(a, a.times[1]) => i = 0
        /\ float_ge(a, a.times[n]) => i = n - 2
        /\ (~float_le(a, a.times[1]) /\ ~float_ge(a, a.times[n]))
               => (float_ge(a, a.times[i + 1]) /\ ~float_ge(a, a.times[i + 2]))

C25_Returned_Original ==
    op = "done" => IntervalOk(arg2, retm)

C25_Returned ==
    op = "done" =>
        IF arg2.nan THEN retm = 0
        ELSE /\ IntervalOk(arg2, retm)
             /\ retm = find_interval(arg2.times, arg2.t)

----------------------------------------------------------------------------
(* Destroying a transform in the middle of a child list                     *)
(*                                                                         *)
(* SpecSplice starts from a forest of MaxSpliceNodes transforms, built by  *)
(* ung_transform_create and ung_transform_set_parent, in a pool that keeps *)
(* one slot free.  pre holds the pool's objects before the last call.      *)

\* transforms of the forest
MaxSpliceNodes == 6
\* ung_transform_set_parent calls explored on the forest
MaxSpliceReparents == 1

\* the pool after n calls of ung_transform_create; keys are the handles
\* returned, in order
RECURSIVE CreatedTransforms(_)
CreatedTransforms(n) ==
    IF n = 0
    THEN [sm |-> Pool_init(MaxSpliceNodes + 1).sm,
          data |-> Pool_init(MaxSpliceNodes + 1).data,
          keys |-> <<>>]
    ELSE LET p == CreatedTransforms(n - 1)
             r == Pool_insert(p.sm, p.data)
         IN  [sm |-> r.sm,
              data |-> [r.data EXCEPT ![r.idx] = InitTransform(@)],
              keys |-> Append(p.keys, r.id)]

\* parents[i] = 0, or the number (< i) of the transform that transform i is
\* made a child of
ForestParents ==
    {f \in [1..MaxSpliceNodes -> 0..(MaxSpliceNodes - 1)] :
        \A i \in 1..MaxSpliceNodes : f[i] < i}

\* ung_transform_set_parent(keys[i], keys[parents[i]]) for i = 1..n
RECURSIVE ForestData(_, _, _)
ForestData(c, parents, n) ==
    IF n = 0 THEN c.data
    ELSE LET d == ForestData(c, parents, n - 1)
         IN  IF parents[n] = 0 THEN d
             ELSE set_parent(d, c.keys[n], c.keys[parents[n]]).data

InitSplice ==
    /\ \E parents \in ForestParents :
         LET c == CreatedTransforms(MaxSpliceNodes)
         IN  /\ sm = c.sm
             /\ data = ForestData(c, parents, MaxSpliceNodes)
    /\ ndebug \in BOOLEAN
    /\ status = "running"
    /\ op = "init"
    /\ arg = NullKey
    /\ arg2 = NullKey
    /\ pre = data
    /\ ret = NullKey
    /\ retb = FALSE
    /\ retm = ZeroMat
    /\ live = {}
    /\ stale = {}
    /\ nops = [destroy |-> 0, set |-> 0, set_parent |-> 0]

\* ung_transform_set_parent(t, p), called with valid handles that close no
\* cycle
SpliceSetParent ==
    /\ status = "running"
    /\ nops.set_parent < MaxSpliceReparents
    /\ nops.destroy = 0
    /\ \E t \in AliveKeys(sm), p \in AliveKeys(sm) \cup {NullKey} :
         /\ ~IsSelfOrAncestor(data, t, p, MaxSpliceNodes + 1)
         /\ LET r == set_parent(data, t, p)
            IN  /\ op' = "set_parent"
                /\ arg' = t
                /\ arg2' = p
                /\ pre' = data
                /\ IF Aborts(r.asserts)
                   THEN /\ status' = "assert"
                        /\ UNCHANGED data
                   ELSE /\ data' = r.data
                        /\ UNCHANGED status
    /\ nops' = [nops EXCEPT !.set_parent = @ + 1]
    /\ UNCHANGED <<sm, ndebug, ret, retb, retm, live, stale>>

NextSplice == SpliceSetParent \/ TransformDestroy

SpecSplice == InitSplice /\ [][NextSplice]_vars

\* the child list of p in d: first_child, then next_sibling links
ChildList(d, p) == SiblingChain(d, d[Slot(p)].first_child, MaxSpliceNodes + 1)

\* the place of k in seq
IndexOf(seq, k) == CHOOSE i \in DOMAIN seq : seq[i] = k

\* the child list of P once T is replaced in it by T's children
Spliced(d, P, T) ==
    LET before == ChildList(d, P)
        i == IndexOf(before, T)
    IN  SubSeq(before, 1, i - 1) \o ChildList(d, T) \o SubSeq(before, i + 1, Len(before))

\* C26: destroying a transform T with parent P replaces T in P's child list
\* by T's children, in their order, at T's old place: afterwards the list
\* is the siblings that preceded T, T's children, the siblings that
\* followed T; a childless T is just removed.
C26_Splice ==
    (op = "destroy" /\ status = "running" /\ pre[Slot(arg)].parent # NullKey)
        => ChildList(data, pre[Slot(arg)].parent) = Spliced(pre, pre[Slot(arg)].parent, arg)

C26_Witness ==
    /\ op = "destroy"
    /\ status = "running"
    /\ pre[Slot(arg)].parent # NullKey
    /\ pre[Slot(arg)].prev_sibling # NullKey
    /\ pre[Slot(arg)].next_sibling # NullKey
    /\ Len(ChildList(pre, arg)) >= 2
    /\ Len(ChildList(data, pre[Slot(arg)].parent)) = 4

----------------------------------------------------------------------------
(* Sounds and sound sources, sound.cpp                                      *)
(*                                                                         *)
(* A Sound* is the sound's place 1..MaxSounds in state->sounds, a          *)
(* SoundSource* the source's pool slot plus one; 0 is nullptr.  The        *)
(* miniaudio objects are left out: whether a sound still plays is an input *)
(* of begin_frame.  In SpecSound sm is the slot map of sound_sources, data *)
(* the rest of State, live the handles ung_sound_play has returned, and    *)
(* nops.calls the number of calls made.                                    *)

\* max_num_sounds
MaxSounds == 3
\* max_num_sound_sources
MaxSoundSources == 2
\* API calls explored; the uint32_t generation of a sound grows by at most
\* two in a call and so stays far from its wrap
MaxSoundCalls == 5

\* std::memset(state, 0, ...) for one Sound
ZeroSound ==
    [source |-> 0,
     source_idle_next |-> 0,
     sounds_idle_lru_next |-> 0,
     sounds_idle_lru_prev |-> 0,
     free_sounds_next |-> 0,
     generation |-> 0,
     in_use |-> FALSE]

\* sound::init: every sound is chained into the free list.  fault records
\* the first assertion failure (assert-enabled builds only), null
\* dereference, exit(1) or endless loop of the call under way.
sound_init(num_sounds, num_sources) ==
    [sounds |-> [i \in 1..num_sounds |->
                    [ZeroSound EXCEPT !.free_sounds_next =
                                          IF i < num_sounds THEN i + 1 ELSE 0]],
     source_idle_head |-> [i \in 1..num_sources |-> 0],
     sounds_idle_lru_head |-> 0,
     sounds_idle_lru_tail |-> 0,
     free_sounds_head |-> 1,
     fault |-> "none"]

\* the call ends here with the given fault, unless it has ended before
Fail(st, kind) == IF st.fault = "none" THEN [st EXCEPT !.fault = kind] ELSE st

\* assert(cond)
Check(st, cond) == IF cond \/ ndebug THEN st ELSE Fail(st, "assert")

sounds_idle_lru_remove(st, sound) ==
    IF st.fault # "none" THEN st
    ELSE
    LET prev == st.sounds[sound].sounds_idle_lru_prev
        st1 == IF prev # 0
               THEN [st EXCEPT !.sounds[prev].sounds_idle_lru_next =
                                   st.sounds[sound].sounds_idle_lru_next]
               ELSE IF st.sounds_idle_lru_head = sound
               THEN [st EXCEPT !.sounds_idle_lru_head =
                                   st.sounds[sound].sounds_idle_lru_next]
               ELSE st
        next == st1.sounds[sound].sounds_idle_lru_next
        st2 == IF next # 0
               THEN [st1 EXCEPT !.sounds[next].sounds_idle_lru_prev =
                                    st1.sounds[sound].sounds_idle_lru_prev]
               ELSE IF st1.sounds_idle_lru_tail = sound
               THEN [st1 EXCEPT !.sounds_idle_lru_tail =
                                    st1.sounds[sound].sounds_idle_lru_prev]
               ELSE st1
    IN  [st2 EXCEPT !.sounds[sound].sounds_idle_lru_prev = 0,
                    !.sounds[sound].sounds_idle_lru_next = 0]

sounds_idle_lru_push_front(st, sound) ==
    IF st.fault # "none" THEN st
    ELSE
    LET head == st.sounds_idle_lru_head
        st1 == [st EXCEPT !.sounds[sound].sounds_idle_lru_prev = 0,
                          !.sounds[sound].sounds_idle_lru_next = head]
        st2 == IF head # 0
               THEN [st1 EXCEPT !.sounds[head].sounds_idle_lru_prev = sound]
               ELSE [st1 EXCEPT !.sounds_idle_lru_tail = sound]
    IN  [st2 EXCEPT !.sounds_idle_lru_head = sound]

\* returns the state and the sound popped (0 = nullptr)
sounds_idle_lru_pop_back(st) ==
    LET sound == st.sounds_idle_lru_tail
    IN  IF st.fault # "none" \/ sound = 0 THEN [st |-> st, sound |-> 0]
        ELSE [st |-> sounds_idle_lru_remove(
                         Check(st, ~st.sounds[sound].in_use), sound),
              sound |-> sound]

source_idle_push(st, source, sound) ==
    IF st.fault # "none" THEN st
    ELSE LET st1 == [st EXCEPT !.sounds[sound].source_idle_next =
                                   st.source_idle_head[source]]
         IN  [st1 EXCEPT !.source_idle_head[source] = sound]

source_idle_pop(st, source) ==
    LET sound == st.source_idle_head[source]
    IN  IF st.fault # "none" \/ sound = 0 THEN [st |-> st, sound |-> 0]
        ELSE [st |-> [st EXCEPT !.source_idle_head[source] =
                                    st.sounds[sound].source_idle_next,
                                !.sounds[sound].source_idle_next = 0],
              sound |-> sound]

\* the while loop of source_idle_remove: the element before sound, or
\* found = FALSE; hang = the list is a cycle that does not hold sound
RECURSIVE source_idle_find(_, _, _, _, _)
source_idle_find(st, sound, cur, prev, fuel) ==
    IF cur = 0 THEN [found |-> FALSE, prev |-> prev, hang |-> FALSE]
    ELSE IF cur = sound THEN [found |-> TRUE, prev |-> prev, hang |-> FALSE]
    ELSE IF fuel = 0 THEN [found |-> FALSE, prev |-> prev, hang |-> TRUE]
    ELSE source_idle_find(st, sound, st.sounds[cur].source_idle_next, cur, fuel - 1)

source_idle_remove(st, source, sound) ==
    IF st.fault # "none" THEN st
    ELSE
    LET f == source_idle_find(st, sound, st.source_idle_head[source], 0,
                              Len(st.sounds))
    IN  IF f.hang THEN Fail(st, "hang")
        ELSE IF ~f.found THEN st
        ELSE LET st1 == IF f.prev # 0
                        THEN [st EXCEPT !.sounds[f.prev].source_idle_next =
                                            st.sounds[sound].source_idle_next]
                        ELSE [st EXCEPT !.source_idle_head[source] =
                                            st.sounds[sound].source_idle_next]
             IN  [st1 EXCEPT !.sounds[sound].source_idle_next = 0]

sound_set_idle(st, sound) ==
    IF st.fault # "none" THEN st
    ELSE
    LET st1 == [st EXCEPT !.sounds[sound].in_use = FALSE,
                          !.sounds[sound].generation = @ + 1]
        st2 == IF st1.sounds[sound].source # 0
               THEN source_idle_push(st1, st1.sounds[sound].source, sound)
               ELSE st1
    IN  sounds_idle_lru_push_front(st2, sound)

\* returns the state and the sound handed out (0 = nullptr)
get_idle_sound(st) ==
    IF st.fault # "none" THEN [st |-> st, sound |-> 0]
    ELSE IF st.free_sounds_head # 0
    THEN LET sound == st.free_sounds_head
             st1 == Check(st, ~st.sounds[sound].in_use)
         IN  [st |-> [st1 EXCEPT !.free_sounds_head =
                                     st.sounds[sound].free_sounds_next,
                                 !.sounds[sound].free_sounds_next = 0,
                                 !.sounds[sound].generation = @ + 1],
              sound |-> sound]
    ELSE sounds_idle_lru_pop_back(st)

\* source_idle_remove(nullptr, ...) reads through the null pointer
unset_source(st, sound) ==
    IF st.fault # "none" THEN st
    ELSE
    LET st1 == Check(st, st.sounds[sound].source # 0)
    IN  IF st1.fault # "none" THEN st1
        ELSE IF st1.sounds[sound].source = 0 THEN Fail(st1, "segv")
        ELSE LET st2 == source_idle_remove(st1, st1.sounds[sound].source, sound)
             IN  IF st2.fault # "none" THEN st2
                 ELSE [st2 EXCEPT !.sounds[sound].source = 0]

set_source(st, sound, source) ==
    IF st.fault # "none" THEN st
    ELSE
    LET st1 == Check(st, ~st.sounds[sound].in_use)
    IN  IF st1.fault # "none" THEN st1
        ELSE IF st1.sounds[sound].source = source THEN st1
        ELSE LET st2 == IF st1.sounds[sound].source # 0
                        THEN unset_source(st1, sound) ELSE st1
             IN  IF st2.fault # "none" THEN st2
                 ELSE [st2 EXCEPT !.sounds[sound].source = source]

\* the prewarm loop of ung_sound_source_load, n iterations
RECURSIVE prewarm(_, _, _)
prewarm(st, source, n) ==
    IF n = 0 \/ st.fault # "none" THEN st
    ELSE LET g == get_idle_sound(st)
         IN  IF g.st.fault # "none" THEN g.st
             ELSE IF g.sound = 0 THEN Fail(g.st, "exit")
             ELSE prewarm(sounds_idle_lru_push_front(
                              source_idle_push(set_source(g.st, g.sound, source),
                                               source, g.sound),
                              g.sound),
                          source, n - 1)

\* the first loop of ung_sound_source_destroy, from sound i on
RECURSIVE destroy_sounds_of(_, _, _)
destroy_sounds_of(st, source, i) ==
    IF i > Len(st.sounds) \/ st.fault # "none" THEN st
    ELSE IF st.sounds[i].source = source
    THEN LET st1 == unset_source(st, i)
             st2 == IF st1.fault # "none" THEN st1
                    ELSE [st1 EXCEPT !.sounds[i].free_sounds_next =
                                         st1.free_sounds_head,
                                     !.free_sounds_head = i]
         IN  destroy_sounds_of(st2, source, i + 1)
    ELSE destroy_sounds_of(st, source, i + 1)

\* the second loop of ung_sound_source_destroy: unset_source on what is
\* left of the source's idle list
RECURSIVE destroy_idle_of(_, _, _)
destroy_idle_of(st, cur, fuel) ==
    IF cur = 0 \/ st.fault # "none" THEN st
    ELSE IF fuel = 0 THEN Fail(st, "hang")
    ELSE destroy_idle_of(unset_source(st, cur),
                         st.sounds[cur].source_idle_next, fuel - 1)

\* begin_frame from sound i on; stopped = the sounds for which
\* ma_sound_is_playing is false
RECURSIVE begin_frame(_, _, _)
begin_frame(st, stopped, i) ==
    IF i > Len(st.sounds) \/ st.fault # "none" THEN st
    ELSE IF st.sounds[i].in_use /\ i \in stopped
    THEN begin_frame(sound_set_idle(st, i), stopped, i + 1)
    ELSE begin_frame(st, stopped, i + 1)

\* get_sound: idx and 24 bits of generation are taken from the id
get_sound(st, id) ==
    IF st.sounds[id.idx + 1].generation # id.gen % GenMask THEN 0
    ELSE id.idx + 1

\* what a call leaves behind: the state it computed, or the fault that
\* ended the process
SoundReturn(st) ==
    /\ data' = [st EXCEPT !.fault = "none"]
    /\ status' = IF st.fault = "none" THEN "running" ELSE st.fault

InitSound ==
    /\ sm = ung_slotmap_init(MaxSoundSources)
    /\ data = sound_init(MaxSounds, MaxSoundSources)
    /\ ndebug \in BOOLEAN
    /\ status = "running"
    /\ op = "init"
    /\ arg = NullKey
    /\ arg2 = 0
    /\ pre = data
    /\ ret = NullKey
    /\ retb = FALSE
    /\ retm = 0
    /\ live = {}
    /\ stale = {}
    /\ nops = [calls |-> 0]

\* ung_sound_source_load; params.num_prewarm_sounds = n
SoundSourceLoad ==
    /\ status = "running"
    /\ nops.calls < MaxSoundCalls
    /\ \E n \in 0..(MaxSounds + 1) :
         LET r == ung_slotmap_insert(sm)
             source == r.oidx + 1
             st0 == Check(data, r.asserts)
             st1 == IF st0.fault # "none" THEN st0
                    ELSE IF r.ret = NullKey THEN Fail(st0, "segv")
                    ELSE [st0 EXCEPT !.source_idle_head[source] = 0]
             st2 == prewarm(st1, source, IF n = 0 THEN 1 ELSE n)
         IN  /\ op' = "load"
             /\ arg' = NullKey
             /\ arg2' = n
             /\ pre' = data
             /\ sm' = IF st0.fault = "none" THEN r.s ELSE sm
             /\ ret' = IF st2.fault = "none" THEN r.ret ELSE ret
             /\ SoundReturn(st2)
    /\ nops' = [nops EXCEPT !.calls = @ + 1]
    /\ UNCHANGED <<ndebug, retb, retm, live, stale>>

\* ung_sound_source_destroy, called with the id of a loaded source
SoundSourceDestroy ==
    /\ status = "running"
    /\ nops.calls < MaxSoundCalls
    /\ \E src_id \in AliveKeys(sm) :
         LET source == ung_slotmap_get_index(src_id) + 1
             st1 == destroy_sounds_of(data, source, 1)
             st2 == IF st1.fault # "none" THEN st1
                    ELSE destroy_idle_of(st1, st1.source_idle_head[source],
                                         Len(st1.sounds))
             rm == ung_slotmap_remove(sm, src_id)
             st3 == Check(st2, rm.asserts)
         IN  /\ op' = "source_destroy"
             /\ arg' = src_id
             /\ arg2' = 0
             /\ pre' = data
             /\ sm' = IF st3.fault = "none" THEN rm.s ELSE sm
             /\ SoundReturn(st3)
    /\ nops' = [nops EXCEPT !.calls = @ + 1]
    /\ UNCHANGED <<ndebug, ret, retb, retm, live, stale>>

\* ung_sound_play, called with the id of a loaded source; retm is the id
\* returned, retb says that it is not 0
SoundPlay ==
    /\ status = "running"
    /\ nops.calls < MaxSoundCalls
    /\ \E src_id \in AliveKeys(sm), fail_if_no_idle \in BOOLEAN :
         LET source == ung_slotmap_get_index(src_id) + 1
             p == source_idle_pop(data, source)
             st1 == IF p.sound # 0 THEN sounds_idle_lru_remove(p.st, p.sound)
                    ELSE p.st
             g == IF p.sound # 0 \/ fail_if_no_idle
                  THEN [st |-> st1, sound |-> p.sound]
                  ELSE get_idle_sound(st1)
             st2 == IF p.sound = 0 /\ g.sound # 0
                    THEN set_source(g.st, g.sound, source) ELSE g.st
             st3 == IF g.sound # 0 /\ st2.fault = "none"
                    THEN [st2 EXCEPT !.sounds[g.sound].in_use = TRUE]
                    ELSE st2
             id == [gen |-> st3.sounds[g.sound].generation, idx |-> g.sound - 1]
             played == g.sound # 0 /\ st3.fault = "none"
         IN  /\ op' = "play"
             /\ arg' = src_id
             /\ arg2' = g.sound
             /\ pre' = data
             /\ retb' = played
             /\ retm' = IF played THEN id ELSE retm
             /\ live' = IF played THEN live \cup {id} ELSE live
             /\ SoundReturn(st3)
    /\ nops' = [nops EXCEPT !.calls = @ + 1]
    /\ UNCHANGED <<sm, ndebug, ret, stale>>

\* ung_sound_stop, called with an id that ung_sound_play has returned
SoundStop ==
    /\ status = "running"
    /\ nops.calls < MaxSoundCalls
    /\ \E id \in live :
         LET sound == get_sound(data, id)
         IN  /\ op' = "stop"
             /\ arg2' = sound
             /\ pre' = data
             /\ retm' = id
             /\ SoundReturn(IF sound = 0 THEN data ELSE sound_set_idle(data, sound))
    /\ nops' = [nops EXCEPT !.calls = @ + 1]
    /\ UNCHANGED <<sm, ndebug, arg, ret, retb, live, stale>>

\* sound::begin_frame
SoundBeginFrame ==
    /\ status = "running"
    /\ nops.calls < MaxSoundCalls
    /\ \E stopped \in SUBSET (1..MaxSounds) :
         /\ op' = "begin_frame"
         /\ arg2' = 0
         /\ pre' = data
         /\ SoundReturn(begin_frame(data, stopped, 1))
    /\ nops' = [nops EXCEPT !.calls = @ + 1]
    /\ UNCHANGED <<sm, ndebug, arg, ret, retb, retm, live, stale>>

NextSound ==
    \/ SoundSourceLoad
    \/ SoundSourceDestroy
    \/ SoundPlay
    \/ SoundStop
    \/ SoundBeginFrame

SpecSound == InitSound /\ [][NextSound]_vars

\* the sounds met from start along the link next, at most fuel of them
RECURSIVE SoundChain(_, _, _, _)
SoundChain(st, start, next, fuel) ==
    IF start = 0 \/ fuel = 0 THEN <<>>
    ELSE <<start>> \o SoundChain(st, st.sounds[start][next], next, fuel - 1)

FreeSounds(st) == SoundChain(st, st.free_sounds_head, "free_sounds_next", MaxSounds + 1)

IdleLru(st) == SoundChain(st, st.sounds_idle_lru_head, "sounds_idle_lru_next", MaxSounds + 1)

SourceIdle(st, source) ==
    SoundChain(st, st.source_idle_head[source], "source_idle_next", MaxSounds + 1)

\* the sources now loaded, as SoundSource pointers
LoadedSources == {ung_slotmap_get_index(k) + 1 : k \in AliveKeys(sm)}

InSomeSourceIdle(st, sound) ==
    \E source \in LoadedSources : sound \in Range(SourceIdle(st, source))

\* C27: in every state reached by load, play, stop, source_destroy and
\* begin_frame, a sound that is not in use is either in the free list only
\* or in both its source's idle list and the LRU list, a sound in use is in
\* no list, no list holds a sound twice, and so the sound get_idle_sound
\* would hand out is not in use.
C27_SoundLists ==
    status = "running" =>
        /\ \A sound \in 1..MaxSounds :
             LET free == sound \in Range(FreeSounds(data))
                 lru == sound \in Range(IdleLru(data))
                 src == data.sounds[sound].source
             IN  IF data.sounds[sound].in_use
                 THEN ~free /\ ~lru /\ ~InSomeSourceIdle(data, sound)
                 ELSE \/ free /\ ~lru /\ ~InSomeSourceIdle(data, sound)
                      \/ /\ ~free /\ lru
                         /\ src \in LoadedSources
                         /\ sound \in Range(SourceIdle(data, src))
        /\ NoDuplicates(FreeSounds(data))
        /\ NoDuplicates(IdleLru(data))
        /\ \A source \in LoadedSources : NoDuplicates(SourceIdle(data, source))
        /\ data.free_sounds_head # 0 => ~data.sounds[data.free_sounds_head].in_use
        /\ (data.free_sounds_head = 0 /\ data.sounds_idle_lru_tail # 0)
               => ~data.sounds[data.sounds_idle_lru_tail].in_use

----------------------------------------------------------------------------
(* File watches, files.cpp                                                  *)
(*                                                                         *)
(* In SpecWatch sm is the slot map of state->watches, data the Watch of    *)
(* every slot (the size of paths and last_mtime, and whether the arrays    *)
(* are allocated), live the watches created and not yet destroyed.         *)

\* max_num_file_watches
MaxWatches == 3
\* most paths of a watch
MaxPaths == 2

\* std::memset(obj, 0, sizeof(Watch))
ZeroWatch == [size |-> 0, allocated |-> FALSE]

InitWatch ==
    /\ sm = ung_slotmap_init(MaxWatches)
    /\ data = [i \in 0..(MaxWatches - 1) |-> ZeroWatch]
    /\ ndebug \in BOOLEAN
    /\ status = "running"
    /\ op = "init"
    /\ arg = NullKey
    /\ arg2 = 0
    /\ pre = sm
    /\ ret = NullKey
    /\ retb = FALSE
    /\ retm = 0
    /\ live = {}
    /\ stale = {}
    /\ nops = [calls |-> 0]

\* ung_file_watch_create(paths, num_paths, cb, ctx), called while fewer than
\* max_num_file_watches watches are live
FileWatchCreate ==
    /\ status = "running"
    /\ Cardinality(live) < MaxWatches
    /\ \E num_paths \in 0..MaxPaths :
         LET r == ung_slotmap_insert(sm)
         IN  /\ op' = "watch_create"
             /\ arg' = NullKey
             /\ arg2' = num_paths
             /\ pre' = sm
             /\ IF Aborts(r.asserts)
                THEN /\ status' = "assert"
                     /\ UNCHANGED <<sm, data, ret, live>>
                ELSE IF r.ret = NullKey
                THEN \* watch is nullptr and line 187 writes through it
                     /\ status' = "segv"
                     /\ sm' = r.s
                     /\ UNCHANGED <<data, ret, live>>
                ELSE /\ sm' = r.s
                     /\ data' = [data EXCEPT ![r.oidx] =
                                     [size |-> num_paths, allocated |-> TRUE]]
                     /\ ret' = r.ret
                     /\ live' = live \cup {r.ret}
                     /\ UNCHANGED status
    /\ UNCHANGED <<ndebug, retb, retm, stale, nops>>

\* ung_file_watch_destroy(w) for a live watch w: the arrays are freed and
\* nothing else is done
FileWatchDestroy ==
    /\ status = "running"
    /\ \E w \in live :
         /\ op' = "watch_destroy"
         /\ arg' = w
         /\ arg2' = 0
         /\ pre' = sm
         /\ IF Aborts(Pool_contains(sm, w))
            THEN /\ status' = "assert"
                 /\ UNCHANGED <<data, live>>
            ELSE /\ data' = [data EXCEPT ![ung_slotmap_get_index(w)] = ZeroWatch]
                 /\ live' = live \ {w}
                 /\ UNCHANGED status
    /\ UNCHANGED <<sm, ndebug, ret, retb, retm, stale, nops>>

NextWatch == FileWatchCreate \/ FileWatchDestroy

SpecWatch == InitWatch /\ [][NextWatch]_vars

\* C28: after ung_file_watch_destroy(w) the pool does not contain w, and
\* every ung_file_watch_create made while fewer than max_num_file_watches
\* watches are live returns a valid, non-null watch.
C28_WatchSlotReleased ==
    /\ [][op' = "watch_destroy" => ~ung_slotmap_contains(sm', arg')]_vars
    /\ [][op' = "watch_create"
            => /\ status' = "running"
               /\ ret' # NullKey
               /\ ung_slotmap_contains(sm', ret')]_vars

----------------------------------------------------------------------------
(* The ascending check of ung_animation_create, one iteration per step      *)
(*                                                                         *)
(* In SpecAscending arg2 is the times array of the channel being copied    *)
(* (dst.times, of num_samples = Len(arg2) floats), pre holds the loop      *)
(* counter s, the indices of dst.times read so far, the values of s at     *)
(* which a comparison was made, and the number of iterations that read     *)
(* past the allocation; op is "check" inside the loop and "done" after it. *)

\* most samples of the channel
MaxCheckSamples == 4
\* sample times are taken from 0..MaxCheckTime
MaxCheckTime == 2
\* iterations past the end of the allocation that are followed
MaxOverread == 3
\* size_t arithmetic wraps at 2^64; the model wraps at 2^16, above every
\* count it uses
SizeWrap == 65536

\* the times arrays a caller may pass, ascending or not
CheckTimes == UNION {[1..n -> 0..MaxCheckTime] : n \in 0..MaxCheckSamples}

\* dst.num_samples - 1, in size_t
check_limit(num_samples) == (num_samples - 1) % SizeWrap

InitAscending ==
    /\ arg2 \in CheckTimes
    /\ pre = [s |-> 0, reads |-> {}, compares |-> {}, overreads |-> 0]
    /\ op = "check"
    /\ ndebug \in BOOLEAN
    /\ status = "running"
    /\ sm = ung_slotmap_init(1)
    /\ data = <<>>
    /\ arg = NullKey
    /\ ret = NullKey
    /\ retb = FALSE
    /\ retm = 0
    /\ live = {}
    /\ stale = {}
    /\ nops = [calls |-> 0]

\* one iteration with assert enabled, both indices inside dst.times
AscendingCompare ==
    /\ op = "check"
    /\ status = "running"
    /\ ~ndebug
    /\ pre.s < check_limit(Len(arg2))
    /\ pre.s + 1 < Len(arg2)
    /\ pre' = [pre EXCEPT !.s = @ + 1,
                          !.reads = @ \cup {pre.s, pre.s + 1},
                          !.compares = @ \cup {pre.s}]
    /\ status' = IF arg2[pre.s + 1] < arg2[pre.s + 2] THEN "running" ELSE "assert"
    /\ UNCHANGED <<sm, data, ndebug, op, arg, arg2, ret, retb, retm, live, stale, nops>>

\* one iteration with assert enabled that reads past the end of dst.times:
\* the values read are indeterminate, so the assertion may hold or fail,
\* and the read itself may fault
AscendingOverread ==
    /\ op = "check"
    /\ status = "running"
    /\ ~ndebug
    /\ pre.s < check_limit(Len(arg2))
    /\ ~(pre.s + 1 < Len(arg2))
    /\ pre.overreads < MaxOverread
    /\ pre' = [pre EXCEPT !.s = @ + 1,
                          !.reads = @ \cup {pre.s, pre.s + 1},
                          !.compares = @ \cup {pre.s},
                          !.overreads = @ + 1]
    /\ status' \in {"running", "assert", "segv"}
    /\ UNCHANGED <<sm, data, ndebug, op, arg, arg2, ret, retb, retm, live, stale, nops>>

\* the loop condition is false
AscendingExit ==
    /\ op = "check"
    /\ status = "running"
    /\ ~ndebug
    /\ ~(pre.s < check_limit(Len(arg2)))
    /\ op' = "done"
    /\ UNCHANGED <<sm, data, ndebug, status, arg, arg2, pre, ret, retb, retm, live, stale, nops>>

\* with NDEBUG the loop body is empty: the loop reads nothing
AscendingNoAssert ==
    /\ op = "check"
    /\ status = "running"
    /\ ndebug
    /\ op' = "done"
    /\ UNCHANGED <<sm, data, ndebug, status, arg, arg2, pre, ret, retb, retm, live, stale, nops>>

NextAscending ==
    AscendingCompare \/ AscendingOverread \/ AscendingExit \/ AscendingNoAssert

SpecAscending == InitAscending /\ [][NextAscending]_vars

\* C29: the ascending check compares exactly the pairs (times[s],
\* times[s+1]) with s+1 < num_samples and reads no index >= num_samples,
\* whatever num_samples >= 0 is; with num_samples = 0 it compares nothing.
C29_AscendingCheck ==
    /\ \A i \in pre.reads : i < Len(arg2)
    /\ \A s \in pre.compares : s + 1 < Len(arg2)
    /\ Len(arg2) = 0 => pre.compares = {}
    /\ (op = "done" /\ ~ndebug)
           => pre.compares = {s \in 0..MaxCheckSamples : s + 1 < Len(arg2)}

----------------------------------------------------------------------------
(* What ung_animation_sample changes                                        *)
(*                                                                         *)
(* SpecSample starts from one animation whose channels also include        *)
(* samplers that do not fit the dof and channels without samples, and      *)
(* samples it repeatedly into the same joints array.  The variables are    *)
(* used as in SpecAnim: pre is the memory at joints before the last call,  *)
(* retm the memory after it, retb the t and num_joints passed.             *)

\* ung_animation_sample calls explored
MaxSampleCalls == 2

\* channels as in Shapes, with every pairing of sampler and dof and with
\* num_samples = 0
SampleShapes ==
    {[dof |-> "TRANSLATION", sampler_type |-> "VEC3", interp_type |-> "LINEAR",
      num_samples |-> 2, times |-> <<0, 4>>,
      values |-> << <<0, 4, 8>>, <<8, 0, 4>> >>],
     [dof |-> "SCALE", sampler_type |-> "VEC3", interp_type |-> "STEP",
      num_samples |-> 1, times |-> <<2>>,
      values |-> << <<12, 8, 4>> >>],
     [dof |-> "ROTATION", sampler_type |-> "QUAT", interp_type |-> "STEP",
      num_samples |-> 2, times |-> <<0, 2>>,
      values |-> << <<0, 0, 0, 1>>, <<3, 0, 0, 0>> >>],
     [dof |-> "ROTATION", sampler_type |-> "VEC3", interp_type |-> "LINEAR",
      num_samples |-> 2, times |-> <<0, 4>>,
      values |-> << <<4, 0, 0>>, <<8, 4, 0>> >>],
     [dof |-> "TRANSLATION", sampler_type |-> "QUAT", interp_type |-> "STEP",
      num_samples |-> 1, times |-> <<2>>,
      values |-> << <<0, 2, 0, 0>> >>],
     [dof |-> "SCALE", sampler_type |-> "QUAT", interp_type |-> "STEP",
      num_samples |-> 2, times |-> <<0, 2>>,
      values |-> << <<0, 0, 0, 1>>, <<0, 0, 5, 0>> >>],
     [dof |-> "TRANSLATION", sampler_type |-> "VEC3", interp_type |-> "LINEAR",
      num_samples |-> 0, times |-> <<>>, values |-> <<>>],
     [dof |-> "ROTATION", sampler_type |-> "QUAT", interp_type |-> "STEP",
      num_samples |-> 0, times |-> <<>>, values |-> <<>>]}

SampleChannelParams ==
    {[key |-> [joint_index |-> j, dof |-> sh.dof],
      sampler_type |-> sh.sampler_type, interp_type |-> sh.interp_type,
      num_samples |-> sh.num_samples, times |-> sh.times, values |-> sh.values] :
        j \in 0..MaxNumJoints, sh \in SampleShapes}

SampleAnimationParams ==
    {[channels |-> cs, duration_s |-> d] :
        cs \in {<<a>> : a \in SampleChannelParams}
                 \cup {<<a, b>> : a \in SampleChannelParams, b \in SampleChannelParams},
        d \in Durations}

\* another content of the memory at joints
OtherJointsMemory ==
    [k \in 1..(MaxNumJoints + 1) |->
       [translation |-> <<0, 0, -k>>, rotation |-> <<0, 1, 0, 0>>, scale |-> <<2, 2, 2>>]]

\* the t a caller passes: before, inside and after the channels' times
SampleTimeArgs == {-1, 1, 3, MaxTime}

\* a channel without samples is created only where the ascending check of
\* ung_animation_create is compiled out
InitSample ==
    /\ \E params \in SampleAnimationParams :
         LET c == AnimationCreated(params)
         IN  /\ sm = c.sm
             /\ data = c.data
             /\ ret = c.id
             /\ live = {c.id}
             /\ arg2 = params
             /\ ndebug \in {b \in BOOLEAN :
                              (\E i \in DOMAIN params.channels :
                                   params.channels[i].num_samples = 0) => b}
    /\ status = "running"
    /\ op = "animation_create"
    /\ arg = NullKey
    /\ pre \in {JointsMemory, OtherJointsMemory}
    /\ retb = [t |-> 0, num_joints |-> 0, touched |-> {}]
    /\ retm = pre
    /\ stale = {}
    /\ nops = [create |-> 1, set |-> 0, update |-> 0]

\* ung_animation_sample(anim, t, joints, num_joints) on the array the last
\* call has left
SampleAgain ==
    /\ status = "running"
    /\ nops.update < MaxSampleCalls
    /\ \E h \in live :
         \E t \in SampleTimeArgs :
           \E n \in 1..MaxNumJoints :
             LET r == ung_animation_sample(data[Slot(h)], t, retm, n)
             IN  /\ op' = "sample"
                 /\ arg' = h
                 /\ pre' = retm
                 /\ retb' = [t |-> t, num_joints |-> n, touched |-> r.touched]
                 /\ IF Aborts(r.asserts)
                    THEN /\ status' = "assert"
                         /\ retm' = retm
                    ELSE /\ status' = "running"
                         /\ retm' = r.mem
    /\ nops' = [nops EXCEPT !.update = @ + 1]
    /\ UNCHANGED <<sm, data, ndebug, arg2, ret, live, stale>>

NextSample == SampleAgain

SpecSample == InitSample /\ [][NextSample]_vars

\* the field of a joint transform that a dof names
FieldOf(dof) ==
    IF dof = "TRANSLATION" THEN "translation"
    ELSE IF dof = "SCALE" THEN "scale" ELSE "rotation"

\* the (joint, field) pairs that the channels of anim target when
\* num_joints joints are passed
Targeted(anim, num_joints) ==
    {<<anim.channels[c].key.joint_index, FieldOf(anim.channels[c].key.dof)>> :
        c \in {i \in DOMAIN anim.channels :
                 /\ anim.channels[i].key.joint_index < num_joints
                 /\ anim.channels[i].num_samples >= 1
                 /\ anim.channels[i].sampler_type
                        = (IF anim.channels[i].key.dof = "ROTATION"
                           THEN "QUAT" ELSE "VEC3")}}

\* C30: ung_animation_sample changes only the (joint, dof) fields targeted
\* by channels with joint_index < num_joints, at least one sample and a
\* sampler that fits the dof; every other field of the memory at joints and
\* the animation stay as they were, and the values written are those
\* written into any other array: they depend on the animation and t only.
C30_SampleFrame ==
    (op = "sample" /\ status = "running") =>
        LET anim == data[Slot(arg)]
            fresh == ung_animation_sample(anim, retb.t, JointsMemory, retb.num_joints).mem
        IN  /\ \A k \in 1..(MaxNumJoints + 1) :
                 \A f \in {"translation", "rotation", "scale"} :
                     IF <<k - 1, f>> \in Targeted(anim, retb.num_joints)
                     THEN retm[k][f] = fresh[k][f]
                     ELSE retm[k][f] = pre[k][f]
            /\ data = AnimationCreated(arg2).data
            /\ sm = AnimationCreated(arg2).sm

C30_Witness ==
    /\ op = "sample"
    /\ status = "running"
    /\ nops.update = 2
    /\ pre # JointsMemory
    /\ pre # OtherJointsMemory
    /\ retm # pre
    /\ Len(data[Slot(arg)].channels) = 2
    /\ Cardinality(Targeted(data[Slot(arg)], retb.num_joints)) = 1
    /\ \E c \in 1..2 :
         /\ data[Slot(arg)].channels[c].key.joint_index < retb.num_joints
         /\ data[Slot(arg)].channels[c].num_samples >= 1
         /\ data[Slot(arg)].channels[c].sampler_type = "VEC3"
         /\ data[Slot(arg)].channels[c].key.dof = "ROTATION"

====
